---- MODULE Spec2Model ----
(***************************************************************************)
(* Model of the DNS delegation diagnostics of tools-portal (DNS By Eye):   *)
(* the zone chain builder, trace_delegation and check_glue_records of      *)
(* src/app/main.py.                                                        *)
(*                                                                         *)
(* Strings are sequences of tokens.  A token is one character of a DNS     *)
(* name ("a", "b", ".") or one literal fragment of a message the code      *)
(* formats ("NXDOMAIN:", " does not exist").  str.startswith(tag) is the   *)
(* comparison of the first token, str.strip/rstrip/split/join work on the  *)
(* tokens as Python works on characters.                                   *)
(***************************************************************************)
EXTENDS Integers, Sequences, FiniteSets, TLC

VARIABLES
    domain,           \* the domain argument of the running call
    verbose,          \* the verbose argument of trace_delegation
    pc,               \* position of the running call
    chain,            \* trace_delegation: local chain (returned, maybe truncated)
    idx,              \* trace_delegation: loop index i of the next iteration
    should_continue,  \* trace_delegation: local should_continue
    result,           \* trace_delegation: local result (list of nodes)
    queries,          \* resolver log: NS queries issued by trace_delegation
    lookups,          \* resolver log: A/AAAA queries issued by the verbose branch
    gchain,           \* check_glue_records: local chain
    glue_results,     \* check_glue_records: the dict glue_results (zone -> zone_result)
    gidx,             \* check_glue_records: loop index i of the next zone
    glue_log,         \* resolver log: the lookups and queries of check_glue_records
    nameservers,      \* test_last_level_ns_references: the nameservers argument
    xref_results,     \* test_last_level_ns_references: the dict results
    xidx,             \* test_last_level_ns_references: position in the query loop
    xref_log,         \* resolver log: the lookups and queries of the cross-reference
    check_glue,       \* api_delegation: the check_glue flag of the request
    health,           \* calculate_health_score: the returned dict
    request,          \* the HTTP request the handler was called with
    response,         \* the HTTP response the handler returned
    prior,            \* what an earlier call returned, kept for comparison
    other,            \* the locals of the request that is not running now
    resolver,         \* the module-level resolver object
    answers           \* what the DNS answers to the queries sent to each upstream

vars == <<domain, verbose, pc, chain, idx, should_continue, result, queries,
          lookups, gchain, glue_results, gidx, glue_log, nameservers,
          xref_results, xidx, xref_log, check_glue, health,
          request, response, prior, other, resolver, answers>>

reqVars == <<request, response, prior, other, resolver, answers>>
traceVars == <<verbose, chain, idx, should_continue, result, queries, lookups>>
glueVars == <<gchain, glue_results, gidx, glue_log>>
xrefVars == <<nameservers, xref_results, xidx, xref_log>>

----------------------------------------------------------------------------
(* Bounds *)

MaxDomainLen == 5
MaxLabels == 3
MaxGlueLabels == 2

----------------------------------------------------------------------------
(* Python string and list primitives *)

Dot == "."

RECURSIVE LStrip(_, _)
LStrip(s, ch) ==
    IF s # <<>> /\ Head(s) = ch THEN LStrip(Tail(s), ch) ELSE s

RECURSIVE RStrip(_, _)
RStrip(s, ch) ==
    IF s # <<>> /\ s[Len(s)] = ch THEN RStrip(SubSeq(s, 1, Len(s) - 1), ch) ELSE s

Strip(s, ch) == RStrip(LStrip(s, ch), ch)

(* str.split(sep): the list of the pieces between separators, empty pieces kept *)
RECURSIVE SplitFrom(_, _, _, _)
SplitFrom(s, sep, cur, acc) ==
    IF s = <<>> THEN Append(acc, cur)
    ELSE IF Head(s) = sep THEN SplitFrom(Tail(s), sep, <<>>, Append(acc, cur))
    ELSE SplitFrom(Tail(s), sep, Append(cur, Head(s)), acc)

Split(s, sep) == SplitFrom(s, sep, <<>>, <<>>)

(* sep.join(parts) *)
RECURSIVE Join(_, _)
Join(sep, parts) ==
    IF parts = <<>> THEN <<>>
    ELSE IF Len(parts) = 1 THEN parts[1]
    ELSE parts[1] \o <<sep>> \o Join(sep, Tail(parts))

(* list[::-1] *)
Reverse(l) == [k \in 1..Len(l) |-> l[Len(l) + 1 - k]]

(* list[:n] *)
Take(l, n) == SubSeq(l, 1, IF n < Len(l) THEN n ELSE Len(l))

(* [x for x in l if x] *)
NonEmpty(l) == SelectSeq(l, LAMBDA x : x # <<>>)

StartsWith(s, tag) == Len(s) >= 1 /\ s[1] = tag

----------------------------------------------------------------------------
(* Zone chain builder *)

Root == <<Dot>>

BuildChainUnreversed(d) ==
    LET labels == NonEmpty(Split(Strip(d, Dot), Dot))
        reversed_labels == Reverse(labels)
    IN  <<Root>> \o [k \in 1..Len(reversed_labels) |->
                        Join(Dot, Take(reversed_labels, k))]

BuildChain(d) ==
    LET labels == NonEmpty(Split(Strip(d, Dot), Dot))
        reversed_labels == Reverse(labels)
    IN  <<Root>> \o [k \in 1..Len(reversed_labels) |->
                        Join(Dot, Reverse(Take(reversed_labels, k)))]

----------------------------------------------------------------------------
(* The resolver as trace_delegation sees it *)

SlowThresholdMs == 2000

(* round-trip times in ms a query can take: at the slow threshold and above it *)
RespTimes == {SlowThresholdMs, SlowThresholdMs + 1}

(* what query_resolver.resolve(zone, 'NS') can do: answer, or raise one of the
   exception classes trace_delegation dispatches on *)
Outcomes == {"OK", "NXDOMAIN", "NoAnswer", "Timeout", "NoNameservers", "Exception"}

RecordTypes == {"A", "AAAA"}

(* r.to_text() of an NS record: the absolute name, with its trailing dot *)
NsName(prefix, zone) ==
    IF zone = Root THEN <<prefix, Dot>> ELSE <<prefix, Dot>> \o zone \o <<Dot>>

(* a nameserver outside every traced zone *)
OutOfZoneName == <<"m", Dot, "x", Dot>>

(* the NS answers a zone can have: one in-zone server, or that and an
   out-of-zone one *)
NsAnswers(zone) ==
    { <<NsName("n", zone)>>, <<NsName("n", zone), OutOfZoneName>> }

PyNone == <<"None">>

ErrorTags == {"Error:", "NXDOMAIN:", "No NS records:", "Timeout:", "No nameservers:"}

IsSentinel(ns) == \E tag \in ErrorTags : StartsWith(ns, tag)

----------------------------------------------------------------------------
(* trace_delegation *)

(* the except clauses: the sentinel nameserver list, verbose_info, error_type *)
SentinelFor(outcome, zone) ==
    CASE outcome = "NXDOMAIN" -> <<"NXDOMAIN:", " ">> \o zone \o <<" does not exist">>
      [] outcome = "NoAnswer" -> <<"No NS records:", " ">> \o zone \o <<" has no nameservers">>
      [] outcome = "Timeout" -> <<"Timeout:", " Query for ">> \o zone \o <<" timed out">>
      [] outcome = "NoNameservers" -> <<"No nameservers:", " No servers available for ">> \o zone
      [] outcome = "Exception" -> <<"Error:", " ", "error_msg">>

VerboseFor(outcome, zone) ==
    CASE outcome = "NXDOMAIN" -> <<"Domain ">> \o zone \o <<" does not exist">>
      [] outcome = "NoAnswer" -> <<"No NS records found for ">> \o zone
      [] outcome = "Timeout" -> <<"DNS query timeout for ">> \o zone
      [] outcome = "NoNameservers" -> <<"No nameservers available for ">> \o zone
      [] outcome = "Exception" -> <<"Query error for ">> \o zone \o <<": ", "error_msg">>

ErrorTypeOf(outcome) ==
    CASE outcome = "OK" -> "None"
      [] outcome = "NXDOMAIN" -> "NXDOMAIN"
      [] outcome = "NoAnswer" -> "NO_NS"
      [] outcome = "Timeout" -> "TIMEOUT"
      [] outcome = "NoNameservers" -> "NO_NAMESERVERS"
      [] outcome = "Exception" -> "OTHER"

(* should_continue after the iteration at index i *)
ContinueAfterTimeoutTolerated(outcome, i, sc) ==
    CASE outcome = "OK" -> sc
      [] outcome \in {"NXDOMAIN", "NoAnswer", "NoNameservers"} -> FALSE
      [] outcome = "Timeout" -> IF i > 1 THEN FALSE ELSE sc
      [] outcome = "Exception" -> IF i > 1 THEN FALSE ELSE sc

ContinueAfterOffByOne(outcome, i, sc) ==
    CASE outcome = "OK" -> sc
      [] outcome \in {"NXDOMAIN", "NoAnswer", "Timeout", "NoNameservers"} -> FALSE
      [] outcome = "Exception" -> IF i >= 1 THEN FALSE ELSE sc

ContinueAfterStopsOnSuccess(outcome, i, sc) ==
    CASE outcome = "OK" -> FALSE
      [] outcome \in {"NXDOMAIN", "NoAnswer", "Timeout", "NoNameservers"} -> FALSE
      [] outcome = "Exception" -> IF i > 1 THEN FALSE ELSE sc

ContinueAfter(outcome, i, sc) ==
    CASE outcome = "OK" -> sc
      [] outcome \in {"NXDOMAIN", "NoAnswer", "Timeout", "NoNameservers"} -> FALSE
      [] outcome = "Exception" -> IF i > 1 THEN FALSE ELSE sc

(* the verbose branch: glue lines of the lookups that answered, in lookup order *)
RECURSIVE GlueLines(_, _, _)
GlueLines(ns_list, k, okLookups) ==
    IF k > Len(ns_list) THEN <<>>
    ELSE (IF <<k, "A">> \in okLookups
            THEN <<ns_list[k] \o <<" A: ", "ips", "ms">>>> ELSE <<>>)
         \o (IF <<k, "AAAA">> \in okLookups
            THEN <<ns_list[k] \o <<" AAAA: ", "ips", "ms">>>> ELSE <<>>)
         \o GlueLines(ns_list, k + 1, okLookups)

RECURSIVE LookupsOf(_, _)
LookupsOf(ns_list, k) ==
    IF k > Len(ns_list) THEN <<>>
    ELSE << <<ns_list[k], "A">>, <<ns_list[k], "AAAA">> >> \o LookupsOf(ns_list, k + 1)

LookupsIssuedAlways(ok, v, ns_list) == IF ok THEN LookupsOf(ns_list, 1) ELSE <<>>

(* the A and AAAA lookups of one iteration: those of the block `if verbose:`
   inside the try, which is reached when the NS query has answered *)
LookupsIssued(ok, v, ns_list) == IF ok /\ v THEN LookupsOf(ns_list, 1) ELSE <<>>

TraceStoppedOr(sc, i, chainLen) == ~sc \/ i < chainLen - 1

TraceStoppedAtLast(sc, i, chainLen) == ~sc

TraceStopped(sc, i, chainLen) == ~sc /\ i < chainLen - 1

ReturnedChainUntruncated(sc, res, ch) == ch

ReturnedChain(sc, res, ch) ==
    IF ~sc /\ Len(res) < Len(ch) THEN Take(ch, Len(res)) ELSE ch

TraceStart ==
    /\ pc = "trace_start"
    /\ chain' = BuildChain(domain)
    /\ result' = <<>>
    /\ should_continue' = TRUE
    /\ idx' = 0
    /\ pc' = "trace_walk"
    /\ UNCHANGED <<domain, verbose, queries, lookups, glueVars, xrefVars, check_glue, health, reqVars>>

(* one iteration of the loop over the chain: the NS query and the node it yields *)
TraceStep(outcome, rt, ns_answer, okLookups) ==
    /\ pc = "trace_walk"
    /\ idx < Len(chain)
    /\ should_continue
    /\ LET zone == chain[idx + 1]
           ok == outcome = "OK"
           ns_list == IF ok THEN ns_answer ELSE <<SentinelFor(outcome, zone)>>
           glue == IF ok /\ verbose THEN GlueLines(ns_list, 1, okLookups) ELSE <<>>
           verbose_info ==
               IF ok THEN (IF glue # <<>> THEN Join(" | ", glue) ELSE <<>>)
               ELSE (IF verbose THEN VerboseFor(outcome, zone) ELSE <<>>)
           sc == ContinueAfter(outcome, idx, should_continue)
       IN  /\ queries' = Append(queries, zone)
           /\ lookups' = lookups \o LookupsIssued(ok, verbose, ns_list)
           /\ should_continue' = sc
           /\ result' = Append(result,
                 [zone |-> zone,
                  nameservers |-> ns_list,
                  verbose |-> IF verbose THEN verbose_info ELSE PyNone,
                  response_time |-> rt,
                  is_slow |-> rt > SlowThresholdMs,
                  error_type |-> ErrorTypeOf(outcome),
                  trace_stopped |-> TraceStopped(sc, idx, Len(chain))])
    /\ idx' = idx + 1
    /\ UNCHANGED <<domain, verbose, pc, chain, glueVars, xrefVars, check_glue, health, reqVars>>

(* the loop ends (exhausted or break), the chain is truncated, the call returns *)
TraceReturn ==
    /\ pc = "trace_walk"
    /\ (idx >= Len(chain) \/ ~should_continue)
    /\ chain' = ReturnedChain(should_continue, result, chain)
    /\ pc' = "trace_done"
    /\ UNCHANGED <<domain, verbose, idx, should_continue, result, queries, lookups, glueVars, xrefVars, check_glue, health, reqVars>>

----------------------------------------------------------------------------
(* check_glue_records *)

(* a Python dict as a function; d[k] = v *)
EmptyDict == <<>>

DictSet(d, k, v) == (k :> v) @@ d

EndsWith(s, suffix) ==
    Len(s) >= Len(suffix) /\ SubSeq(s, Len(s) - Len(suffix) + 1, Len(s)) = suffix

ToSet(l) == {l[k] : k \in 1..Len(l)}

RootServers ==
    << <<"a", Dot, "root-servers", Dot, "net">>,
       <<"b", Dot, "root-servers", Dot, "net">>,
       <<"c", Dot, "root-servers", Dot, "net">> >>

MaxParents == Len(RootServers)

(* [r.to_text().rstrip('.') for r in response] *)
StripAll(answer) == [k \in 1..Len(answer) |-> RStrip(answer[k], Dot)]

(* the test without the dot in front of the zone *)
ExpectedGlueAnySuffix(zone, ns) ==
    zone # Root /\ (EndsWith(ns, zone) \/ ns = zone)

ExpectedGlue(zone, ns) ==
    zone # Root /\ (EndsWith(ns, <<Dot>> \o zone) \/ ns = zone)

(* what one parent nameserver does when it is tried: resolving it raises, the
   UDP query to it raises, or it answers with some additional section *)
ParentBehaviours == {"resolve_fails", "query_fails", "no_glue", "glue"}

Answers(beh) == beh \notin {"resolve_fails", "query_fails"}

RRset(name, rdtype, rdatas) == [name |-> name, rdtype |-> rdtype, rdatas |-> rdatas]

RECURSIVE GlueAll(_, _)
GlueAll(ns_list, k) ==
    IF k > Len(ns_list) THEN <<>>
    ELSE << RRset(ns_list[k] \o <<Dot>>, "A", <<"ip1">>),
            RRset(ns_list[k] \o <<Dot>>, "AAAA", <<"ip6">>),
            RRset(ns_list[k] \o <<Dot>>, "TXT", <<"txt">>) >>
         \o GlueAll(ns_list, k + 1)

(* one record set of the given type for every nameserver of the zone *)
GlueFor(ns_list, rdtype, rdatas) ==
    [k \in 1..Len(ns_list) |-> RRset(ns_list[k] \o <<Dot>>, rdtype, rdatas)]

(* response.additional of an answering parent: a record of an unrelated name,
   A, AAAA and TXT records of every nameserver of the zone, or records of one
   type and of the named content for every nameserver of the zone *)
AdditionalOf(beh, ns_list) ==
    CASE beh = "no_glue" -> << RRset(<<"z", Dot>>, "A", <<"ip9">>) >>
      [] beh = "glue" -> GlueAll(ns_list, 1)
      [] beh = "glue_a" -> GlueFor(ns_list, "A", <<"ip1">>)
      [] beh = "glue_a_other" -> GlueFor(ns_list, "A", <<"ip2">>)
      [] beh = "glue_a_pair" -> GlueFor(ns_list, "A", <<"ip2", "ip1">>)
      [] beh = "glue_a_twice" ->
             GlueFor(ns_list, "A", <<"ip1">>) \o GlueFor(ns_list, "A", <<"ip1">>)
      [] beh = "glue_aaaa" -> GlueFor(ns_list, "AAAA", <<"ip6">>)
      [] beh = "glue_aaaa_other" -> GlueFor(ns_list, "AAAA", <<"ip7">>)

(* the loop over response.additional, for the nameserver ns *)
RECURSIVE ScanAdditional(_, _, _)
ScanAdditional(additional, ns, g) ==
    IF additional = <<>> THEN g
    ELSE LET rr == Head(additional)
             g2 == IF RStrip(rr.name, Dot) = ns
                   THEN (IF rr.rdtype = "A"
                         THEN [g EXCEPT !.has_glue_a = TRUE,
                                        !.glue_a_records = @ \o rr.rdatas]
                         ELSE IF rr.rdtype = "AAAA"
                         THEN [g EXCEPT !.has_glue_aaaa = TRUE,
                                        !.glue_aaaa_records = @ \o rr.rdatas]
                         ELSE g)
                   ELSE g
         IN  ScanAdditional(Tail(additional), ns, g2)

Matches(additional, ns) ==
    \E k \in 1..Len(additional) :
        /\ RStrip(additional[k].name, Dot) = ns
        /\ additional[k].rdtype \in RecordTypes

(* after parent nameserver k answered: is the walk over? *)
WalkEndsOnMatchOnly(additional, ns) == Matches(additional, ns)

WalkEndsAfterAnswer(additional, ns) == TRUE

(* the loop over parent_ns_list from position k on; g is ns_glue, the log gets
   one entry per parent nameserver tried *)
RECURSIVE WalkParents(_, _, _, _, _, _)
WalkParents(parent_ns_list, k, ns, ns_list, behaviour, st) ==
    IF k > Len(parent_ns_list) THEN st
    ELSE LET beh == behaviour[k]
             additional == AdditionalOf(beh, ns_list)
             entry == [kind |-> "parent", ns |-> ns, parent |-> parent_ns_list[k],
                       pos |-> k, of |-> Len(parent_ns_list),
                       answered |-> Answers(beh),
                       matched |-> Answers(beh) /\ Matches(additional, ns)]
         IN  IF ~Answers(beh)
             THEN WalkParents(parent_ns_list, k + 1, ns, ns_list, behaviour,
                              [st EXCEPT !.log = Append(@, entry)])
             ELSE LET st2 == [g |-> ScanAdditional(additional, ns, st.g),
                              log |-> Append(st.log, entry)]
                  IN  IF WalkEndsAfterAnswer(additional, ns) THEN st2
                      ELSE WalkParents(parent_ns_list, k + 1, ns, ns_list,
                                       behaviour, st2)

NewNsGlue(ns) ==
    [nameserver |-> ns,
     expected_glue |-> FALSE,
     has_glue_a |-> FALSE,
     has_glue_aaaa |-> FALSE,
     glue_a_records |-> <<>>,
     glue_aaaa_records |-> <<>>,
     resolved_a_records |-> <<>>,
     resolved_aaaa_records |-> <<>>,
     glue_matches_resolution |-> TRUE,
     issues |-> <<>>]

IssueMismatch(t) ==
    <<"Glue ", t, " records ", "don't match", " resolved ", t, " records">>

IssueMissing(t) ==
    <<"Missing glue", " ", t, " records (expected for in-zone nameserver)">>

IssueUnnecessary == <<"Unnecessary glue records", " (nameserver is out-of-zone)">>

(* the comparisons made on the lists as they come, not on their sets *)
JudgeComparesLists(g) ==
    LET mismatch_a == /\ g.glue_a_records # <<>>
                      /\ g.resolved_a_records # <<>>
                      /\ g.glue_a_records # g.resolved_a_records
        mismatch_aaaa == /\ g.glue_aaaa_records # <<>>
                         /\ g.resolved_aaaa_records # <<>>
                         /\ g.glue_aaaa_records # g.resolved_aaaa_records
        missing_a == g.expected_glue /\ ~g.has_glue_a /\ g.resolved_a_records # <<>>
        missing_aaaa ==
            g.expected_glue /\ ~g.has_glue_aaaa /\ g.resolved_aaaa_records # <<>>
        unnecessary == ~g.expected_glue /\ (g.has_glue_a \/ g.has_glue_aaaa)
    IN  [g EXCEPT
           !.glue_matches_resolution = ~(mismatch_a \/ mismatch_aaaa),
           !.issues = @ \o (IF mismatch_a THEN <<IssueMismatch("A")>> ELSE <<>>)
                        \o (IF mismatch_aaaa THEN <<IssueMismatch("AAAA")>> ELSE <<>>)
                        \o (IF missing_a THEN <<IssueMissing("A")>> ELSE <<>>)
                        \o (IF missing_aaaa THEN <<IssueMissing("AAAA")>> ELSE <<>>)
                        \o (IF unnecessary THEN <<IssueUnnecessary>> ELSE <<>>)]

(* the comparisons after the lookups: glue_matches_resolution and the issues *)
(* a missing A record reported whether or not the nameserver resolves *)
JudgeMissingUnresolved(g) ==
    LET mismatch_a == /\ g.glue_a_records # <<>>
                      /\ g.resolved_a_records # <<>>
                      /\ ToSet(g.glue_a_records) # ToSet(g.resolved_a_records)
        mismatch_aaaa == /\ g.glue_aaaa_records # <<>>
                         /\ g.resolved_aaaa_records # <<>>
                         /\ ToSet(g.glue_aaaa_records) # ToSet(g.resolved_aaaa_records)
        missing_a == g.expected_glue /\ ~g.has_glue_a
        missing_aaaa ==
            g.expected_glue /\ ~g.has_glue_aaaa /\ g.resolved_aaaa_records # <<>>
        unnecessary == ~g.expected_glue /\ (g.has_glue_a \/ g.has_glue_aaaa)
    IN  [g EXCEPT
           !.glue_matches_resolution = ~(mismatch_a \/ mismatch_aaaa),
           !.issues = @ \o (IF mismatch_a THEN <<IssueMismatch("A")>> ELSE <<>>)
                        \o (IF mismatch_aaaa THEN <<IssueMismatch("AAAA")>> ELSE <<>>)
                        \o (IF missing_a THEN <<IssueMissing("A")>> ELSE <<>>)
                        \o (IF missing_aaaa THEN <<IssueMissing("AAAA")>> ELSE <<>>)
                        \o (IF unnecessary THEN <<IssueUnnecessary>> ELSE <<>>)]

Judge(g) ==
    LET mismatch_a == /\ g.glue_a_records # <<>>
                      /\ g.resolved_a_records # <<>>
                      /\ ToSet(g.glue_a_records) # ToSet(g.resolved_a_records)
        mismatch_aaaa == /\ g.glue_aaaa_records # <<>>
                         /\ g.resolved_aaaa_records # <<>>
                         /\ ToSet(g.glue_aaaa_records) # ToSet(g.resolved_aaaa_records)
        missing_a == g.expected_glue /\ ~g.has_glue_a /\ g.resolved_a_records # <<>>
        missing_aaaa ==
            g.expected_glue /\ ~g.has_glue_aaaa /\ g.resolved_aaaa_records # <<>>
        unnecessary == ~g.expected_glue /\ (g.has_glue_a \/ g.has_glue_aaaa)
    IN  [g EXCEPT
           !.glue_matches_resolution = ~(mismatch_a \/ mismatch_aaaa),
           !.issues = @ \o (IF mismatch_a THEN <<IssueMismatch("A")>> ELSE <<>>)
                        \o (IF mismatch_aaaa THEN <<IssueMismatch("AAAA")>> ELSE <<>>)
                        \o (IF missing_a THEN <<IssueMissing("A")>> ELSE <<>>)
                        \o (IF missing_aaaa THEN <<IssueMissing("AAAA")>> ELSE <<>>)
                        \o (IF unnecessary THEN <<IssueUnnecessary>> ELSE <<>>)]

(* the body of the loop over ns_list for one nameserver: ns_glue and the log *)
CheckNameserver(zone, parent_zone, ns, ns_list, env, log) ==
    LET g0 == [NewNsGlue(ns) EXCEPT !.expected_glue = ExpectedGlue(zone, ns)]
        parent_ns_list ==
            IF parent_zone = Root THEN RootServers
            ELSE IF env.parent_answer = <<>> THEN <<>>
            ELSE StripAll(env.parent_answer)
        log1 == IF parent_zone = Root THEN log
                ELSE Append(log, [kind |-> "parent_ns", ns |-> ns, zone |-> parent_zone,
                                  ok |-> env.parent_answer # <<>>])
        walked == WalkParents(parent_ns_list, 1, ns, ns_list, env.behaviour,
                              [g |-> g0, log |-> log1])
        g1 == [walked.g EXCEPT !.resolved_a_records = env.resolved.a,
                               !.resolved_aaaa_records = env.resolved.aaaa]
    IN  [g |-> Judge(g1), log |-> walked.log]

(* the loop over ns_list from position k on *)
RECURSIVE CheckNameservers(_, _, _, _, _, _)
CheckNameservers(zone, parent_zone, ns_list, k, env, st) ==
    IF k > Len(ns_list) THEN st
    ELSE LET ns == ns_list[k]
             c == CheckNameserver(zone, parent_zone, ns, ns_list, env, st.log)
             prefixed == [j \in 1..Len(c.g.issues) |-> ns \o <<": ">> \o c.g.issues[j]]
         IN  CheckNameservers(zone, parent_zone, ns_list, k + 1, env,
                 [zr |-> [st.zr EXCEPT !.glue_records = DictSet(@, ns, c.g),
                                      !.glue_issues = @ \o prefixed],
                  log |-> c.log])

NewZoneResult(zone) ==
    [zone |-> zone,
     nameservers |-> <<>>,
     glue_records |-> EmptyDict,
     glue_issues |-> <<>>,
     status |-> "unknown"]

(* the status the except clauses give a zone whose NS lookup raised *)
FailureStatusTimeoutUnknown(outcome) ==
    CASE outcome = "NXDOMAIN" -> "nxdomain"
      [] outcome = "NoAnswer" -> "no_ns"
      [] outcome = "Timeout" -> "unknown"
      [] OTHER -> "error"

FailureStatus(outcome) ==
    CASE outcome = "NXDOMAIN" -> "nxdomain"
      [] outcome = "NoAnswer" -> "no_ns"
      [] OTHER -> "error"

FailureIssue(outcome, zone) ==
    CASE outcome = "NXDOMAIN" -> <<"Zone ">> \o zone \o <<" does not exist">>
      [] outcome = "NoAnswer" -> <<"No NS records found for ">> \o zone
      [] OTHER -> <<"Error querying ">> \o zone \o <<": ", "error_msg">>

RootSkipIssue(zone) ==
    <<"Glue record checking skipped for ">> \o zone \o <<" (root level)">>

GlueStart ==
    /\ pc = "glue_start"
    /\ gchain' = BuildChain(domain)
    /\ glue_results' = EmptyDict
    /\ gidx' = 0
    /\ pc' = "glue_walk"
    /\ UNCHANGED <<domain, traceVars, glue_log, xrefVars, check_glue, health, reqVars>>

(* the iteration for the root zone: skipped *)
GlueSkipRoot ==
    /\ pc = "glue_walk"
    /\ gidx < Len(gchain)
    /\ gidx = 0
    /\ LET zone == gchain[gidx + 1]
       IN  glue_results' =
               DictSet(glue_results, zone,
                       [NewZoneResult(zone) EXCEPT
                           !.status = "skipped",
                           !.glue_issues = Append(@, RootSkipIssue(zone))])
    /\ gidx' = gidx + 1
    /\ UNCHANGED <<domain, pc, traceVars, gchain, glue_log, xrefVars, check_glue, health, reqVars>>

(* the iteration for a zone below the root, against the resolver env *)
GlueCheckZone(env) ==
    /\ pc = "glue_walk"
    /\ gidx < Len(gchain)
    /\ gidx # 0
    /\ LET zone == gchain[gidx + 1]
           parent_zone == IF gidx > 0 THEN gchain[gidx] ELSE Root
           log0 == Append(glue_log, [kind |-> "zone_ns", zone |-> zone,
                                     outcome |-> env.outcome])
           zr0 == NewZoneResult(zone)
       IN  IF env.outcome = "OK"
           THEN LET ns_list == StripAll(env.ns_answer)
                    done == CheckNameservers(zone, parent_zone, ns_list, 1, env,
                                [zr |-> [zr0 EXCEPT !.nameservers = ns_list,
                                                    !.status = "success"],
                                 log |-> log0])
                IN  /\ glue_results' = DictSet(glue_results, zone, done.zr)
                    /\ glue_log' = done.log
           ELSE /\ glue_results' =
                       DictSet(glue_results, zone,
                               [zr0 EXCEPT
                                   !.status = FailureStatus(env.outcome),
                                   !.glue_issues =
                                       Append(@, FailureIssue(env.outcome, zone))])
                /\ glue_log' = log0
    /\ gidx' = gidx + 1
    /\ UNCHANGED <<domain, pc, traceVars, gchain, xrefVars, check_glue, health, reqVars>>

GlueReturn ==
    /\ pc = "glue_walk"
    /\ gidx >= Len(gchain)
    /\ pc' = "glue_done"
    /\ UNCHANGED <<domain, traceVars, glueVars, xrefVars, check_glue, health, reqVars>>

----------------------------------------------------------------------------
(* test_last_level_ns_references *)

(* the order of characters that sorted() uses *)
Ord(ch) ==
    CASE ch = Dot -> 46
      [] ch = "a" -> 97
      [] ch = "b" -> 98
      [] ch = "c" -> 99
      [] ch = "d" -> 100
      [] ch = "e" -> 101
      [] ch = "f" -> 102
      [] ch = "m" -> 109
      [] ch = "n" -> 110
      [] ch = "o" -> 111
      [] ch = "x" -> 120
      [] ch = "z" -> 122

(* s < t for strings *)
RECURSIVE StrLess(_, _)
StrLess(s, t) ==
    IF t = <<>> THEN FALSE
    ELSE IF s = <<>> THEN TRUE
    ELSE IF Head(s) = Head(t) THEN StrLess(Tail(s), Tail(t))
    ELSE Ord(Head(s)) < Ord(Head(t))

(* sorted(list(S)) for a set of strings *)
RECURSIVE Sorted(_)
Sorted(S) ==
    IF S = {} THEN <<>>
    ELSE LET least == CHOOSE x \in S : \A y \in S \ {x} : StrLess(x, y)
         IN  <<least>> \o Sorted(S \ {least})

(* x in list *)
InList(x, l) == \E k \in 1..Len(l) : l[k] = x

(* what a nameserver does when it is asked: resolving it raises, the UDP query
   to it raises, or it answers with an answer and an authority section *)
Response(kind, answer, authority) ==
    [kind |-> kind, answer |-> answer, authority |-> authority]

(* the names of the records of every type of one section *)
SectionRefsAnyType(section) ==
    UNION { ToSet(StripAll(section[k].rdatas)) : k \in 1..Len(section) }

(* the names rd.to_text().rstrip('.') of the NS records of one section *)
SectionRefs(section) ==
    UNION { ToSet(StripAll(section[k].rdatas)) :
                k \in {j \in 1..Len(section) : section[j].rdtype = "NS"} }

(* the entry left as the first loop made it *)
FailedEntryUnmarked(e0) == e0

(* the entry the except clause gives a nameserver whose lookup or query raised *)
FailedEntry(e0) == [references |-> {}, error |-> "error_msg"]

(* the first loop: results[ns] = {'references': set()} for every nameserver *)
XrefStart ==
    /\ pc = "xref_start"
    /\ xref_results' = [ns \in ToSet(nameservers) |-> [references |-> {}]]
    /\ xidx' = 0
    /\ pc' = "xref_query"
    /\ UNCHANGED <<domain, traceVars, glueVars, nameservers, xref_log, check_glue, health, reqVars>>

(* one iteration of the second loop: nameserver ns is resolved and queried *)
XrefQuery(resp) ==
    /\ pc = "xref_query"
    /\ xidx < Len(nameservers)
    /\ LET ns == nameservers[xidx + 1]
           e0 == xref_results[ns]
           refs == SectionRefs(resp.answer) \cup SectionRefs(resp.authority)
           e1 == ("references" :> (e0.references \cup refs)) @@ e0
           e2 == IF \E ref_ns \in refs : RStrip(ref_ns, Dot) = RStrip(ns, Dot)
                 THEN ("self_reference" :> TRUE) @@ e1
                 ELSE e1
       IN  /\ xref_results' =
                 IF resp.kind = "answer"
                 THEN DictSet(xref_results, ns, e2)
                 ELSE DictSet(xref_results, ns, FailedEntry(e0))
           /\ xref_log' = Append(xref_log, [ns |-> ns, domain |-> domain, resp |-> resp])
    /\ xidx' = xidx + 1
    /\ UNCHANGED <<domain, pc, traceVars, glueVars, nameservers, check_glue, health, reqVars>>

(* results[name]['references'] as the loop over position k finds it: a sorted
   list for the nameservers up to position k, still a set for the later ones *)
ReferencesAt(results, name, k) ==
    IF \E j \in 1..k : nameservers[j] = name
    THEN ToSet(results[name].references)
    ELSE results[name].references

(* the mutual references taken with every back-reference, whoever made it *)
MutualOfAnyReferrer(results, ns, refs, k) ==
    SelectSeq(refs, LAMBDA ref :
        /\ InList(ref, nameservers)
        /\ ref \in DOMAIN results
        /\ ReferencesAt(results, ref, k) # {})

(* the list comprehension that gives results[ns]['mutual_references'] *)
MutualOf(results, ns, refs, k) ==
    SelectSeq(refs, LAMBDA ref :
        /\ InList(ref, nameservers)
        /\ ref \in DOMAIN results
        /\ \E r \in ReferencesAt(results, ref, k) :
               RStrip(r, Dot) = RStrip(ns, Dot))

(* the third loop from position k on *)
RECURSIVE FinishFrom(_, _)
FinishFrom(k, results) ==
    IF k > Len(nameservers) THEN results
    ELSE LET ns == nameservers[k]
             refs == Sorted(ReferencesAt(results, ns, k - 1))
             r1 == DictSet(results, ns, ("references" :> refs) @@ results[ns])
             self == \E j \in 1..Len(refs) : RStrip(refs[j], Dot) = RStrip(ns, Dot)
             r2 == DictSet(r1, ns, ("self_reference" :> self) @@ r1[ns])
             r3 == DictSet(r2, ns,
                           ("mutual_references" :> MutualOf(r2, ns, refs, k)) @@ r2[ns])
         IN  FinishFrom(k + 1, r3)

(* the third loop and the return *)
XrefFinish ==
    /\ pc = "xref_query"
    /\ xidx >= Len(nameservers)
    /\ xref_results' = FinishFrom(1, xref_results)
    /\ pc' = "xref_done"
    /\ UNCHANGED <<domain, traceVars, glueVars, nameservers, xidx, xref_log, check_glue, health, reqVars>>

----------------------------------------------------------------------------
(* calculate_health_score: the count of glue issues *)

(* substring in string, for the literal fragments the scorer looks for *)
Contains(str, fragment) == \E k \in 1..Len(str) : str[k] = fragment

IsMajorGlueIssue(issue) ==
    Contains(issue, "Missing glue") \/ Contains(issue, "don't match")

IsMinorGlueIssue(issue) == ~IsMajorGlueIssue(issue)

(* the loops over glue_results.values() and over each zone's glue_issues *)
RECURSIVE MajorOver(_, _)
MajorOver(glue, zones) ==
    IF zones = {} THEN 0
    ELSE LET z == CHOOSE y \in zones : TRUE
         IN  Len(SelectSeq(glue[z].glue_issues, IsMajorGlueIssue))
             + MajorOver(glue, zones \ {z})

RECURSIVE MinorOver(_, _)
MinorOver(glue, zones) ==
    IF zones = {} THEN 0
    ELSE LET z == CHOOSE y \in zones : TRUE
         IN  Len(SelectSeq(glue[z].glue_issues, IsMinorGlueIssue))
             + MinorOver(glue, zones \ {z})

(* major_glue_issues and minor_glue_issues of a glue report *)
MajorGlueIssues(glue) == MajorOver(glue, DOMAIN glue)

MinorGlueIssues(glue) == MinorOver(glue, DOMAIN glue)

----------------------------------------------------------------------------
(* calculate_health_score.  Points are counted in hundredths of a point, the
   points a breakdown line names and the final score in tenths.  A breakdown
   line is its sign ("+", "-", or "bullet" for a detail line), the points it
   names and the text after them. *)

Weights == [root |-> 100, tld |-> 100, domain |-> 300, glue |-> 300, crossRef |-> 200]

Max(a, b) == IF a >= b THEN a ELSE b

Min(a, b) == IF a <= b THEN a ELSE b

(* round(x, 1) of a value that the float holds exactly: half goes to even *)
RoundTenths(h) ==
    LET q == h \div 10
        r == h % 10
    IN  IF r < 5 THEN q
        ELSE IF r > 5 THEN q + 1
        ELSE IF q % 2 = 0 THEN q ELSE q + 1

(* round(score, 1) of the float sum: a sum that lies half way between two
   tenths is held by a float a little below or above it, tie says which *)
RoundScore(h, tie) ==
    LET q == h \div 10
        r == h % 10
    IN  IF r < 5 THEN q
        ELSE IF r > 5 THEN q + 1
        ELSE IF tie = "down" THEN q ELSE q + 1

Line(sign, tenths, text) == [sign |-> sign, tenths |-> tenths, text |-> text]

LayerWeightTldAsDomain(i) ==
    IF i = 0 THEN Weights.root ELSE Weights.domain

(* layer i (from 0) of the trace *)
LayerWeight(i) ==
    IF i = 0 THEN Weights.root ELSE IF i = 1 THEN Weights.tld ELSE Weights.domain

HasErrors(node) == \E k \in 1..Len(node.nameservers) : IsSentinel(node.nameservers[k])

LayerScoreRewardsErrors(node, i) ==
    (IF HasErrors(node) THEN (70 * LayerWeight(i)) \div 100 ELSE 0)
    + (IF ~node.is_slow THEN (30 * LayerWeight(i)) \div 100 ELSE 0)

LayerScore(node, i) ==
    (IF ~HasErrors(node) THEN (70 * LayerWeight(i)) \div 100 ELSE 0)
    + (IF ~node.is_slow THEN (30 * LayerWeight(i)) \div 100 ELSE 0)

LayerLines(node, i) ==
    << IF ~HasErrors(node)
       THEN Line("+", RoundTenths((70 * LayerWeight(i)) \div 100),
                 <<" points: Layer ", ToString(i + 1), " (">> \o node.zone \o <<") is healthy">>)
       ELSE Line("+", 0, <<" points: Layer ", ToString(i + 1), " (">> \o node.zone \o <<") has errors">>),
       IF ~node.is_slow
       THEN Line("+", RoundTenths((30 * LayerWeight(i)) \div 100),
                 <<" points: Layer ", ToString(i + 1), " (">> \o node.zone
                     \o <<") has good response time">>)
       ELSE Line("+", 0, <<" points: Layer ", ToString(i + 1), " (">> \o node.zone
                     \o <<") has slow response">>) >>

(* the loop over the trace from layer i on: the points and the lines *)
RECURSIVE LayersFrom(_, _)
LayersFrom(trace, i) ==
    IF i >= Len(trace) THEN [points |-> 0, lines |-> <<>>]
    ELSE LET rest == LayersFrom(trace, i + 1)
         IN  [points |-> LayerScore(trace[i + 1], i) + rest.points,
              lines |-> LayerLines(trace[i + 1], i) \o rest.lines]

TruthyAlways(d) == TRUE

(* `if glue_results:` and `if cross_ref_results:`: the dict is there and not empty *)
Truthy(d) == d # EmptyDict

(* deduction = major * 1.0 + minor * 0.25 *)
Deduction(major, minor) == major * 100 + minor * 25

(* the block `if glue_results:` *)
GluePart(glue) ==
    IF ~Truthy(glue) THEN [points |-> 0, lines |-> <<>>]
    ELSE LET major == MajorGlueIssues(glue)
             minor == MinorGlueIssues(glue)
         IN  IF major + minor = 0
             THEN [points |-> Weights.glue,
                   lines |-> <<Line("+", Weights.glue \div 10,
                                    <<" points: All glue records are correct">>)>>]
             ELSE [points |-> Max(0, Weights.glue - Deduction(major, minor)),
                   lines |->
                     (IF major > 0
                      THEN <<Line("-", RoundTenths(major * 100),
                                  <<" points: ", ToString(major), " major glue ",
                                    IF major = 1 THEN "issue" ELSE "issues", " found">>)>>
                      ELSE <<>>)
                     \o (IF minor > 0
                         THEN <<Line("-", RoundTenths(minor * 25),
                                     <<" points: ", ToString(minor), " minor glue ",
                                       IF minor = 1 THEN "issue" ELSE "issues", " found">>)>>
                         ELSE <<>>)]

(* info.get('error') is set and not empty *)
IsBroken(info) == "error" \in DOMAIN info /\ info.error # ""

(* info.get('references', []) *)
ReferencesOf(info) == IF "references" \in DOMAIN info THEN info.references ELSE <<>>

(* refs and ns.rstrip('.') not in [ref.rstrip('.') for ref in refs] *)
IsInconsistent(ns, info) ==
    LET refs == ReferencesOf(info)
    IN  /\ refs # <<>>
        /\ ~\E k \in 1..Len(refs) : RStrip(refs[k], Dot) = RStrip(ns, Dot)

(* cross_ref_results.items() in insertion order: the order of the nameservers *)
BrokenDetails(xref, names) ==
    LET broken == SelectSeq(names, LAMBDA ns : IsBroken(xref[ns]))
    IN  [k \in 1..Len(broken) |-> broken[k] \o <<": ", xref[broken[k]].error>>]

(* the block `if cross_ref_results:`; names is the key order of the dict *)
CrossRefPart(xref, names) ==
    IF ~Truthy(xref) THEN [points |-> 0, lines |-> <<>>]
    ELSE LET broken == Cardinality({ns \in DOMAIN xref : IsBroken(xref[ns])})
             inconsistencies ==
                 Cardinality({ns \in DOMAIN xref : IsInconsistent(ns, xref[ns])})
             details == BrokenDetails(xref, names)
         IN  IF inconsistencies + broken = 0
             THEN [points |-> Weights.crossRef,
                   lines |-> <<Line("+", Weights.crossRef \div 10,
                                    <<" points: All nameserver references are consistent">>)>>]
             ELSE [points |-> Max(0, Weights.crossRef - Deduction(broken, inconsistencies)),
                   lines |->
                     (IF broken > 0
                      THEN <<Line("-", RoundTenths(broken * 100),
                                  <<" points: ", ToString(broken), " broken ",
                                    IF broken = 1 THEN "nameserver" ELSE "nameservers",
                                    " found">>)>>
                           \o [k \in 1..Min(3, Len(details)) |->
                                   Line("bullet", 0, details[k])]
                           \o (IF Len(details) > 3
                               THEN <<Line("bullet", 0,
                                           <<"... and ", ToString(Len(details) - 3), " more">>)>>
                               ELSE <<>>)
                      ELSE <<>>)
                     \o (IF inconsistencies > 0
                         THEN <<Line("-", RoundTenths(inconsistencies * 25),
                                     <<" points: ", ToString(inconsistencies),
                                       " inconsistent nameserver ",
                                       IF inconsistencies = 1 THEN "reference"
                                       ELSE "references", " found">>)>>
                         ELSE <<>>)]

(* max_score = 10, in tenths of a point *)
MaxScore == 100

NormalizeUnclamped(total, tie) == RoundScore(total, tie)

(* score = min(10, round(score, 1)), in tenths of a point *)
Normalize(total, tie) == Min(100, RoundScore(total, tie))

(* (score / max_score) * 100, in percent *)
Percentage(score, max_score) == (score * 100) \div max_score

(* the returned dict; layer_points, glue_points and crossref_points are the
   three amounts added to the local score before it is rounded *)
CalculateHealthScore(trace, glue, xref, names, tie) ==
    LET layers == LayersFrom(trace, 0)
        glue_part == GluePart(glue)
        crossref_part == CrossRefPart(xref, names)
        total == layers.points + glue_part.points + crossref_part.points
        score == Normalize(total, tie)
    IN  [score |-> score,
         max_score |-> MaxScore,
         breakdown |-> layers.lines \o glue_part.lines \o crossref_part.lines,
         percentage |-> Percentage(score, MaxScore),
         layer_points |-> layers.points,
         glue_points |-> glue_part.points,
         crossref_points |-> crossref_part.points]

----------------------------------------------------------------------------
(* Inputs *)

Chars == {"a", "b", Dot}

RECURSIVE SeqsUpTo(_, _)
SeqsUpTo(S, n) ==
    IF n = 0 THEN {<<>>}
    ELSE LET shorter == SeqsUpTo(S, n - 1)
         IN  shorter \cup {Append(s, x) : s \in shorter, x \in S}

(* every domain string of at most MaxDomainLen characters *)
DomainStrings == SeqsUpTo(Chars, MaxDomainLen)

(* the labels of the traced domains, from the TLD down *)
LabelPool == <<"a", "b", "c", "d", "e", "f">>

(* the well-formed domain of n labels: ".", "a", "b.a", "c.b.a", ... *)
DomainOfDepth(n) ==
    IF n = 0 THEN Root ELSE Join(Dot, [k \in 1..n |-> <<LabelPool[n + 1 - k]>>])

TraceDomains == {DomainOfDepth(n) : n \in 0..MaxLabels}

(* the resolver object as the module configures it when it is loaded *)
GlobalResolver ==
    [nameservers |-> "system", timeout |-> "DNS_TIMEOUT", lifetime |-> "DNS_LIFETIME"]

NoRequest == /\ request = <<>>
             /\ response = <<>>
             /\ prior = <<>>
             /\ other = <<>>
             /\ resolver = GlobalResolver
             /\ answers = <<>>

NoGlue == /\ gchain = <<>>
          /\ glue_results = <<>>
          /\ gidx = 0
          /\ glue_log = <<>>

NoXref == /\ nameservers = <<>>
          /\ xref_results = <<>>
          /\ xidx = 0
          /\ xref_log = <<>>

NoPipeline == /\ check_glue = FALSE
              /\ health = <<>>

NoTrace == /\ verbose = FALSE
           /\ chain = <<>>
           /\ idx = 0
           /\ should_continue = TRUE
           /\ result = <<>>
           /\ queries = <<>>
           /\ lookups = <<>>

----------------------------------------------------------------------------
(* Specification of the chain builder alone: any domain string, one call *)

ChainBuild ==
    /\ pc = "chain_start"
    /\ chain' = BuildChain(domain)
    /\ pc' = "chain_done"
    /\ UNCHANGED <<domain, verbose, idx, should_continue, result, queries, lookups, glueVars, xrefVars, check_glue, health, reqVars>>

InitChain ==
    /\ domain \in DomainStrings
    /\ pc = "chain_start"
    /\ NoTrace
    /\ NoGlue
    /\ NoXref
    /\ NoPipeline
    /\ NoRequest

NextChain == ChainBuild

SpecChain == InitChain /\ [][NextChain]_vars

----------------------------------------------------------------------------
(* Specification of trace_delegation: one call against an arbitrary resolver *)

(* which verbose A/AAAA lookups answer: the nameservers resolve for no record
   type, for A only, or for A and AAAA *)
LookupOutcomes(ns_answer) ==
    {(1..Len(ns_answer)) \X types : types \in {{}, {"A"}, RecordTypes}}

InitTrace ==
    /\ domain \in TraceDomains
    /\ verbose \in BOOLEAN
    /\ pc = "trace_start"
    /\ chain = <<>>
    /\ idx = 0
    /\ should_continue = TRUE
    /\ result = <<>>
    /\ queries = <<>>
    /\ lookups = <<>>
    /\ NoGlue
    /\ NoXref
    /\ NoPipeline
    /\ NoRequest

TraceStepAny ==
    /\ pc = "trace_walk"
    /\ idx < Len(chain)
    /\ \E outcome \in Outcomes, rt \in RespTimes :
          \E ns_answer \in (IF outcome = "OK" THEN NsAnswers(chain[idx + 1])
                                               ELSE {<<>>}) :
             \E okLookups \in (IF outcome = "OK" /\ verbose
                                 THEN LookupOutcomes(ns_answer) ELSE {{}}) :
                 TraceStep(outcome, rt, ns_answer, okLookups)

NextTrace == TraceStart \/ TraceStepAny \/ TraceReturn

SpecTrace == InitTrace /\ [][NextTrace]_vars

(* trace_delegation under the scheduling of a running call: it takes its next
   step as long as it has one *)
SpecTraceFair == InitTrace /\ [][NextTrace]_vars /\ WF_vars(NextTrace)

----------------------------------------------------------------------------
(* Specification of check_glue_records: one call against an arbitrary resolver *)

GlueDomains == {DomainOfDepth(n) : n \in 0..MaxGlueLabels}

(* what resolve(ns, 'A') and resolve(ns, 'AAAA') give for a zone's nameservers:
   nothing, the glue address, or another address and an AAAA record *)
ResolvedOptions ==
    { [a |-> <<>>, aaaa |-> <<>>],
      [a |-> <<"ip1">>, aaaa |-> <<>>],
      [a |-> <<"ip2">>, aaaa |-> <<"ip6">>] }

(* the resolver during one zone's iteration: the zone's NS lookup, the parent
   zone's NS lookup (<<>>: it raises), one behaviour per parent nameserver,
   and the address lookups of the zone's nameservers *)
GlueEnvs(zone, parent_zone) ==
    { [outcome |-> "OK", ns_answer |-> a, parent_answer |-> pa, behaviour |-> b,
       resolved |-> r] :
         a \in NsAnswers(zone),
         pa \in (IF parent_zone = Root THEN {<<>>} ELSE NsAnswers(parent_zone) \cup {<<>>}),
         b \in UNION {[1..n -> ParentBehaviours] : n \in 0..MaxParents},
         r \in ResolvedOptions }
    \cup
    { [outcome |-> o, ns_answer |-> <<>>, parent_answer |-> <<>>, behaviour |-> <<>>,
       resolved |-> [a |-> <<>>, aaaa |-> <<>>]] :
         o \in Outcomes \ {"OK"} }

(* an environment says how each parent nameserver that exists behaves *)
EnvFits(env, parent_zone) ==
    env.outcome = "OK" =>
        Len(env.behaviour) = (IF parent_zone = Root THEN Len(RootServers)
                              ELSE Len(env.parent_answer))

InitGlue ==
    /\ domain \in GlueDomains
    /\ pc = "glue_start"
    /\ NoTrace
    /\ NoGlue
    /\ NoXref
    /\ NoPipeline
    /\ NoRequest

GlueCheckZoneAny ==
    /\ pc = "glue_walk"
    /\ gidx < Len(gchain)
    /\ gidx # 0
    /\ \E env \in GlueEnvs(gchain[gidx + 1], gchain[gidx]) :
          EnvFits(env, gchain[gidx]) /\ GlueCheckZone(env)

NextGlue == GlueStart \/ GlueSkipRoot \/ GlueCheckZoneAny \/ GlueReturn

SpecGlue == InitGlue /\ [][NextGlue]_vars

----------------------------------------------------------------------------
(* Specification of check_glue_records on one domain whose own zone meets a
   resolver with many kinds of answers: nameserver names in and out of the
   zone, glue of either type that agrees or not with the resolved addresses *)

MaxRichLabels == 2

RichDomains == {DomainOfDepth(n) : n \in 1..MaxRichLabels}

RichBehaviours ==
    {"resolve_fails", "no_glue", "glue", "glue_a", "glue_a_other", "glue_a_pair",
     "glue_a_twice", "glue_aaaa", "glue_aaaa_other"}

(* the NS answer of the zone: a nameserver below the zone, the zone's own
   name, a name that ends with the zone's characters without being below it,
   a name that starts with the zone's name, a name of another zone *)
RichNsAnswers(zone) ==
    { <<NsName("n", zone)>>,
      <<zone \o <<Dot>> >>,
      <<<<"b">> \o zone \o <<Dot>> >>,
      <<zone \o <<Dot, "x", Dot>> >>,
      <<OutOfZoneName>>,
      <<NsName("n", zone), OutOfZoneName>> }

RichResolved ==
    { [a |-> ra, aaaa |-> r6] :
          ra \in {<<>>, <<"ip1">>, <<"ip2">>, <<"ip1", "ip2">>},
          r6 \in {<<>>, <<"ip6">>, <<"ip7">>} }

(* a resolver that answers every lookup of a zone above the domain plainly *)
PlainEnv(zone, parent_zone) ==
    [outcome |-> "OK", ns_answer |-> <<NsName("n", zone)>>,
     parent_answer |-> IF parent_zone = Root THEN <<>>
                       ELSE <<NsName("n", parent_zone)>>,
     behaviour |-> IF parent_zone = Root THEN [k \in 1..Len(RootServers) |-> "glue"]
                   ELSE <<"glue">>,
     resolved |-> [a |-> <<"ip1">>, aaaa |-> <<"ip6">>]]

RichEnvs(zone, parent_zone) ==
    { [outcome |-> "OK", ns_answer |-> a, parent_answer |-> pa, behaviour |-> b,
       resolved |-> r] :
         a \in RichNsAnswers(zone),
         pa \in (IF parent_zone = Root THEN {<<>>} ELSE NsAnswers(parent_zone) \cup {<<>>}),
         b \in UNION {[1..n -> RichBehaviours] : n \in 0..MaxParents},
         r \in RichResolved }

InitGlueRich ==
    /\ domain \in RichDomains
    /\ pc = "glue_start"
    /\ NoTrace
    /\ NoGlue
    /\ NoXref
    /\ NoPipeline
    /\ NoRequest

GlueCheckZoneRich ==
    /\ pc = "glue_walk"
    /\ gidx < Len(gchain)
    /\ gidx # 0
    /\ LET zone == gchain[gidx + 1]
           parent_zone == gchain[gidx]
       IN  IF zone = RStrip(domain, Dot)
           THEN \E env \in RichEnvs(zone, parent_zone) :
                    EnvFits(env, parent_zone) /\ GlueCheckZone(env)
           ELSE GlueCheckZone(PlainEnv(zone, parent_zone))

NextGlueRich == GlueStart \/ GlueSkipRoot \/ GlueCheckZoneRich \/ GlueReturn

SpecGlueRich == InitGlueRich /\ [][NextGlueRich]_vars

----------------------------------------------------------------------------
(* Specification of test_last_level_ns_references: one call for a list of
   distinct nameservers, written with or without the trailing dot, against
   nameservers that fail or answer with any NS names *)

MaxXrefNs == 2

(* the names nameservers have and refer to *)
XrefNames == << <<"n", Dot, "a">>, <<"m", Dot, "x">>, <<"o", Dot, "a">> >>

(* the two ways a name is written *)
Written(name) == {name, name \o <<Dot>>}

XrefInputs ==
    { l \in UNION {[1..n -> UNION {Written(XrefNames[k]) : k \in 1..Len(XrefNames)}] :
                      n \in 1..MaxXrefNs} :
        \A i, j \in 1..Len(l) : i # j => RStrip(l[i], Dot) # RStrip(l[j], Dot) }

NsRRset(names) == [rdtype |-> "NS", rdatas |-> names]

SoaRRset(name) == [rdtype |-> "SOA", rdatas |-> <<name>>]

(* the NS names of an answer: to_text gives them with the trailing dot *)
XrefReferrals ==
    { Sorted({XrefNames[k] \o <<Dot>> : k \in K}) : K \in (SUBSET (1..Len(XrefNames))) \ {{}} }

XrefResponses ==
    { Response("resolve_fails", <<>>, <<>>),
      Response("query_fails", <<>>, <<>>),
      Response("answer", <<>>, <<>>),
      Response("answer", <<>>, <<SoaRRset(XrefNames[1] \o <<Dot>>)>>) }
    \cup { Response("answer", <<NsRRset(names)>>, <<>>) : names \in XrefReferrals }
    \cup { Response("answer", <<>>, <<NsRRset(names)>>) : names \in XrefReferrals }

InitXref ==
    /\ domain = DomainOfDepth(2)
    /\ pc = "xref_start"
    /\ nameservers \in XrefInputs
    /\ xref_results = <<>>
    /\ xidx = 0
    /\ xref_log = <<>>
    /\ NoTrace
    /\ NoGlue
    /\ NoPipeline
    /\ NoRequest

XrefQueryAny ==
    /\ pc = "xref_query"
    /\ xidx < Len(nameservers)
    /\ \E resp \in XrefResponses : XrefQuery(resp)

NextXref == XrefStart \/ XrefQueryAny \/ XrefFinish

SpecXref == InitXref /\ [][NextXref]_vars

----------------------------------------------------------------------------
(* Specification of the request pipeline of api_delegation, after the request
   is validated: trace_delegation, check_glue_records when check_glue is set,
   the choice of the last level's nameservers, test_last_level_ns_references
   when there are any, and calculate_health_score.  export_data runs the same
   steps with the glue check always on. *)

MaxPipeLabels == 2

(* the domains a request can name: at least two labels *)
PipeDomains == {DomainOfDepth(n) : n \in 2..MaxPipeLabels}

(* the glue check of the request is on: check_glue_records is called *)
PipeCheckGlue ==
    /\ pc = "trace_done"
    /\ check_glue
    /\ pc' = "glue_start"
    /\ UNCHANGED <<domain, traceVars, glueVars, xrefVars, check_glue, health, reqVars>>

(* every nameserver of the last node, error strings included *)
LastLevelNsUnfiltered(trace) == trace[Len(trace)].nameservers

(* the nameservers of the last node that start with none of the error tags *)
LastLevelNs(trace) ==
    SelectSeq(trace[Len(trace)].nameservers, LAMBDA ns : ~IsSentinel(ns))

(* last_level_ns is computed; the cross-reference is called if it is not empty *)
PipeSelect ==
    /\ \/ pc = "glue_done"
       \/ pc = "trace_done" /\ ~check_glue
    /\ LET last_level_ns == LastLevelNs(result)
       IN  /\ nameservers' = last_level_ns
           /\ pc' = IF last_level_ns # <<>> THEN "xref_start" ELSE "pipe_score"
    /\ UNCHANGED <<domain, traceVars, glueVars, xref_results, xidx, xref_log, check_glue, health, reqVars>>

(* the response is built: calculate_health_score(trace, glue_results,
   cross_ref_results) *)
PipeScore(tie) ==
    /\ pc \in {"xref_done", "pipe_score"}
    /\ health' = CalculateHealthScore(result, glue_results, xref_results, nameservers, tie)
    /\ pc' = "pipe_done"
    /\ UNCHANGED <<domain, traceVars, glueVars, xrefVars, check_glue, reqVars>>

(* the resolver during the trace of a request: any outcome for every zone,
   every answer fast or slow, every address lookup of the verbose branch
   answered *)
PipeTraceStep ==
    /\ pc = "trace_walk"
    /\ idx < Len(chain)
    /\ \E outcome \in Outcomes :
          \E rt \in (IF outcome = "OK" THEN RespTimes ELSE {SlowThresholdMs}),
             ns_answer \in (IF outcome = "OK" THEN NsAnswers(chain[idx + 1]) ELSE {<<>>}) :
              TraceStep(outcome, rt, ns_answer,
                        IF outcome = "OK" /\ verbose
                        THEN (1..Len(ns_answer)) \X RecordTypes ELSE {})

(* the resolver during the glue check of a request, for the domain's own
   zone: the zone is delegated cleanly, its parent has no glue for it, it has
   an out-of-zone nameserver with glue, or its NS lookup fails; the zones
   above it are delegated cleanly *)
PipeGlueEnvs(zone, parent_zone) ==
    LET plain == PlainEnv(zone, parent_zone)
    IN  { plain,
          [plain EXCEPT !.behaviour = [k \in DOMAIN plain.behaviour |-> "no_glue"]],
          [plain EXCEPT !.ns_answer = <<NsName("n", zone), OutOfZoneName>>],
          [outcome |-> "NXDOMAIN", ns_answer |-> <<>>, parent_answer |-> <<>>,
           behaviour |-> <<>>, resolved |-> [a |-> <<>>, aaaa |-> <<>>]] }

PipeGlueCheckZone ==
    /\ pc = "glue_walk"
    /\ gidx < Len(gchain)
    /\ gidx # 0
    /\ LET zone == gchain[gidx + 1]
           parent_zone == gchain[gidx]
       IN  IF zone = RStrip(domain, Dot)
           THEN \E env \in PipeGlueEnvs(zone, parent_zone) : GlueCheckZone(env)
           ELSE GlueCheckZone(PlainEnv(zone, parent_zone))

(* the last level's nameservers during the cross-reference of a request: one
   cannot be resolved, answers without NS records, names every nameserver of
   the list, or names only a nameserver outside the list *)
PipeXrefResponses ==
    { Response("resolve_fails", <<>>, <<>>),
      Response("answer", <<>>, <<>>),
      Response("answer", <<NsRRset(nameservers)>>, <<>>),
      Response("answer", <<>>, <<NsRRset(<<XrefNames[3] \o <<Dot>> >>)>>) }

PipeXrefQuery ==
    /\ pc = "xref_query"
    /\ xidx < Len(nameservers)
    /\ \E resp \in PipeXrefResponses : XrefQuery(resp)

PipeScoreAny == \E tie \in {"down", "up"} : PipeScore(tie)

InitPipeline ==
    /\ domain \in PipeDomains
    /\ verbose \in BOOLEAN
    /\ check_glue \in BOOLEAN
    /\ pc = "trace_start"
    /\ chain = <<>>
    /\ idx = 0
    /\ should_continue = TRUE
    /\ result = <<>>
    /\ queries = <<>>
    /\ lookups = <<>>
    /\ health = <<>>
    /\ NoGlue
    /\ NoXref
    /\ NoRequest

NextPipeline ==
    \/ TraceStart \/ PipeTraceStep \/ TraceReturn
    \/ PipeCheckGlue \/ GlueStart \/ GlueSkipRoot \/ PipeGlueCheckZone \/ GlueReturn
    \/ PipeSelect
    \/ XrefStart \/ PipeXrefQuery \/ XrefFinish
    \/ PipeScoreAny

SpecPipeline == InitPipeline /\ [][NextPipeline]_vars

----------------------------------------------------------------------------
(* Properties of trace_delegation *)

FullChain == BuildChain(domain)

DefinitiveErrors == {"NXDOMAIN", "NO_NS", "TIMEOUT", "NO_NAMESERVERS"}

TraceDone == pc = "trace_done"

LastNode == result[Len(result)]

(* C1: a node whose NS query ended in NXDOMAIN, NO_NS, TIMEOUT or
   NO_NAMESERVERS is the last node of the trace at any depth, and no NS query
   was issued for a zone after it. *)
C1_DefinitiveStops ==
    \A k \in 1..Len(result) :
        result[k].error_type \in DefinitiveErrors =>
            /\ k = Len(result)
            /\ Len(queries) = k
            /\ queries[k] = FullChain[k]
            /\ ~should_continue

(* a TIMEOUT at the root of a three-label domain ended the trace there *)
C1_Witness ==
    /\ TraceDone
    /\ Len(FullChain) = 4
    /\ Len(result) = 1
    /\ result[1].error_type = "TIMEOUT"
    /\ queries = <<Root>>

(* C2: a node with error_type OTHER carries the 'Error:' sentinel; at index
   i > 1 it is where tracing stops, at index 0 or 1 tracing goes on and the
   NS query for zone i+1 (when the chain has one) is issued. *)
C2_OtherStopsPastTld ==
    \A k \in 1..Len(result) :
        result[k].error_type = "OTHER" =>
            /\ Len(result[k].nameservers) = 1
            /\ StartsWith(result[k].nameservers[1], "Error:")
            /\ (k - 1 > 1 => /\ k = Len(result)
                             /\ Len(queries) = k
                             /\ ~should_continue)
            /\ (k - 1 <= 1 /\ k = Len(result) => should_continue)
            /\ (k - 1 <= 1 /\ k < Len(FullChain) /\ TraceDone =>
                    /\ Len(queries) >= k + 1
                    /\ queries[k + 1] = FullChain[k + 1])

(* OTHER at the TLD was tolerated, OTHER at the next zone stopped the trace
   with one zone left unqueried *)
C2_Witness ==
    /\ TraceDone
    /\ Len(FullChain) = 4
    /\ Len(result) = 3
    /\ result[2].error_type = "OTHER"
    /\ result[3].error_type = "OTHER"
    /\ Len(queries) = 3

(* C3: a node with trace_stopped = true is the last node of the trace. *)
C3_StoppedNodeIsLast ==
    \A k \in 1..Len(result) : result[k].trace_stopped => k = Len(result)

(* a returned trace that ends in a stopped node before the end of the chain *)
C3_Witness ==
    /\ TraceDone
    /\ LastNode.trace_stopped
    /\ Len(result) < Len(FullChain)

StoppedAt(k) ==
    \/ result[k].error_type \in DefinitiveErrors
    \/ result[k].error_type = "OTHER" /\ k - 1 > 1

(* C4: the returned trace and chain have the same length and the same zones,
   the chain is a prefix of the full chain, and it is the whole chain exactly
   when no stop happened before the last zone. *)
C4_ChainMatchesTrace ==
    TraceDone =>
        /\ Len(result) = Len(chain)
        /\ \A k \in 1..Len(result) : result[k].zone = chain[k]
        /\ Len(chain) <= Len(FullChain)
        /\ chain = Take(FullChain, Len(chain))
        /\ (chain = FullChain <=>
                ~ \E k \in 1..Len(result) : StoppedAt(k) /\ k < Len(FullChain))

(* a trace that stopped at the TLD of a three-label domain: chain cut to 2 *)
C4_Witness ==
    /\ TraceDone
    /\ Len(FullChain) = 4
    /\ Len(chain) = 2
    /\ StoppedAt(2)

TldNxdomain == TraceDone /\ Len(result) >= 2 /\ result[2].error_type = "NXDOMAIN"

(* C5 as stated: for every traced domain, NXDOMAIN for the TLD zone gives a
   trace of exactly 2 nodes, the second with error_type NXDOMAIN and
   trace_stopped = true, and a chain of length 2. *)
C5_Original ==
    TldNxdomain =>
        /\ Len(result) = 2
        /\ result[2].error_type = "NXDOMAIN"
        /\ result[2].trace_stopped
        /\ Len(chain) = 2

(* C5 amended: NXDOMAIN for the TLD zone gives a trace of exactly 2 nodes and
   a chain of length 2, the second node has error_type NXDOMAIN, and its
   trace_stopped is true exactly when the domain has at least two labels. *)
C5_TldNxdomain ==
    TldNxdomain =>
        /\ Len(result) = 2
        /\ result[2].error_type = "NXDOMAIN"
        /\ (result[2].trace_stopped <=> Len(FullChain) > 2)
        /\ Len(chain) = 2
        /\ queries = Take(FullChain, 2)

(* NXDOMAIN at the TLD of a two-label domain *)
C5_Witness ==
    /\ TldNxdomain
    /\ Len(FullChain) = 3
    /\ result[2].trace_stopped

Complete == should_continue /\ Len(result) = Len(FullChain)

StoppedDefinitive ==
    ~should_continue /\ result # <<>> /\ LastNode.error_type \in DefinitiveErrors

StoppedTransient ==
    ~should_continue /\ result # <<>> /\ LastNode.error_type = "OTHER"

TerminalStates ==
    (IF Complete THEN {"COMPLETE"} ELSE {})
    \cup (IF StoppedDefinitive THEN {"STOPPED_DEFINITIVE"} ELSE {})
    \cup (IF StoppedTransient THEN {"STOPPED_TRANSIENT"} ELSE {})

C6_Safe ==
    /\ Len(queries) <= Len(FullChain)
    /\ queries = Take(FullChain, Len(queries))
    /\ (TraceDone => /\ Len(result) >= 1
                     /\ result[1].zone = Root
                     /\ Cardinality(TerminalStates) = 1)

(* C6: whatever the resolver does, trace_delegation issues at most one NS
   query per chain zone in root-to-leaf order, returns, and the returned trace
   has at least the root node and is in exactly one of the terminal states
   COMPLETE, STOPPED_DEFINITIVE, STOPPED_TRANSIENT. *)
C6_Terminates == []C6_Safe /\ <>TraceDone

(* a call on a three-label domain that walked every zone and returned *)
C6_Witness ==
    /\ TraceDone
    /\ Complete
    /\ Len(queries) = 4

----------------------------------------------------------------------------
(* Properties of the chain builder *)

(* the positions of a domain string where a label starts *)
LabelStarts(d) == {p \in 1..Len(d) : d[p] # Dot /\ (p = 1 \/ d[p - 1] = Dot)}

(* the domain string without leading, trailing and repeated dots *)
RECURSIVE Normalized(_)
Normalized(d) ==
    IF d = <<>> THEN <<>>
    ELSE LET rest == Normalized(Tail(d))
         IN  IF Head(d) # Dot THEN <<Head(d)>> \o rest
             ELSE IF rest = <<>> \/ Head(rest) = Dot THEN rest
             ELSE <<Dot>> \o rest

NormalizedDomain(d) == LStrip(Normalized(d), Dot)

IsLabel(s) == s # <<>> /\ \A p \in 1..Len(s) : s[p] # Dot

WwwExampleCom ==
    <<"w", "w", "w", ".", "e", "x", "a", "m", "p", "l", "e", ".", "c", "o", "m">>

(* C7: the chain of a domain of n labels has n+1 elements, starts with '.',
   ends with the full domain, and each later element is the one before it with
   one more label prepended; 'www.example.com' and '.' give the chains of the
   examples. *)
C7_ChainShape ==
    pc = "chain_done" =>
        LET n == Cardinality(LabelStarts(domain))
        IN  /\ Len(chain) = n + 1
            /\ chain[1] = Root
            /\ (n >= 1 => /\ IsLabel(chain[2])
                          /\ chain[n + 1] = NormalizedDomain(domain))
            /\ \A k \in 2..n :
                   \E m \in 1..Len(chain[k + 1]) :
                       /\ IsLabel(SubSeq(chain[k + 1], 1, m))
                       /\ chain[k + 1] = SubSeq(chain[k + 1], 1, m) \o <<Dot>> \o chain[k]
            /\ BuildChain(WwwExampleCom) =
                   << Root, <<"c", "o", "m">>,
                      <<"e", "x", "a", "m", "p", "l", "e", ".", "c", "o", "m">>,
                      WwwExampleCom >>
            /\ BuildChain(Root) = <<Root>>

(* the chain of "a.b.a" was built *)
C7_Witness ==
    /\ pc = "chain_done"
    /\ domain = <<"a", ".", "b", ".", "a">>
    /\ Len(chain) = 4

----------------------------------------------------------------------------
(* Properties of check_glue_records *)

GlueDone == pc = "glue_done"

GlueFullChain == BuildChain(domain)

(* the parent nameservers tried for nameserver ns of zone number z (the log
   entries between that zone's NS lookup and the next zone's) *)
ZoneStart(z) ==
    CHOOSE p \in 1..Len(glue_log) :
        glue_log[p].kind = "zone_ns" /\ glue_log[p].zone = GlueFullChain[z]

ZoneEnd(z) ==
    IF z < Len(GlueFullChain) /\ \E p \in 1..Len(glue_log) :
           glue_log[p].kind = "zone_ns" /\ glue_log[p].zone = GlueFullChain[z + 1]
    THEN ZoneStart(z + 1) - 1
    ELSE Len(glue_log)

Tried(z, ns) ==
    SelectSeq(SubSeq(glue_log, ZoneStart(z), ZoneEnd(z)),
              LAMBDA e : e.kind = "parent" /\ e.ns = ns)

CheckedZones == {z \in 2..Len(GlueFullChain) : z <= gidx}

(* C8 as stated: the parent nameservers are tried in list order, the walk ends
   at the first one whose additional section has an A/AAAA record of the
   nameserver being checked, and a parent nameserver that fails or answers
   without such a record does not end the walk. *)
C8_Original ==
    \A z \in CheckedZones :
        \A ns \in ToSet(glue_results[GlueFullChain[z]].nameservers) :
            LET t == Tried(z, ns)
            IN  \A j \in 1..Len(t) :
                    /\ t[j].pos = j
                    /\ (t[j].matched => j = Len(t))
                    /\ (j = Len(t) /\ ~t[j].matched => t[j].pos = t[j].of)

(* C9 as stated: the root zone has status 'skipped', an empty issue list, and
   adds nothing to the glue issues the scorer counts. *)
C9_Original ==
    GlueDone =>
        /\ Root \in DOMAIN glue_results
        /\ glue_results[Root].status = "skipped"
        /\ glue_results[Root].glue_issues = <<>>
        /\ LET others == [z \in DOMAIN glue_results \ {Root} |-> glue_results[z]]
           IN  /\ MajorGlueIssues(glue_results) = MajorGlueIssues(others)
               /\ MinorGlueIssues(glue_results) = MinorGlueIssues(others)

GlueStatuses == {"skipped", "success", "nxdomain", "no_ns", "error"}

ZoneOutcome(z) == glue_log[ZoneStart(z)].outcome

(* C10: a failed NS lookup of a zone gives that zone the status nxdomain,
   no_ns or error and no per-nameserver records, every zone of the full chain
   is looked up once whatever happened to the zones before it, and the report
   has one entry per zone of the full chain with a status that is never
   'unknown'. *)
C10_ZoneFailureIsLocal ==
    /\ \A z \in CheckedZones :
          LET zone == GlueFullChain[z]
              zr == glue_results[zone]
              o == ZoneOutcome(z)
          IN  /\ Len(SelectSeq(glue_log,
                     LAMBDA e : e.kind = "zone_ns" /\ e.zone = zone)) = 1
              /\ zr.zone = zone
              /\ (o = "OK" <=> zr.status = "success")
              /\ (o = "NXDOMAIN" <=> zr.status = "nxdomain")
              /\ (o = "NoAnswer" <=> zr.status = "no_ns")
              /\ (o \in {"Timeout", "NoNameservers", "Exception"} <=> zr.status = "error")
              /\ (o # "OK" => zr.glue_records = EmptyDict /\ zr.nameservers = <<>>)
              /\ (o = "OK" => DOMAIN zr.glue_records = ToSet(zr.nameservers))
    /\ (GlueDone =>
          /\ DOMAIN glue_results = ToSet(GlueFullChain)
          /\ gidx = Len(GlueFullChain)
          /\ Cardinality(DOMAIN glue_results) = Len(GlueFullChain)
          /\ \A zone \in DOMAIN glue_results :
                 glue_results[zone].status \in GlueStatuses)

(* the TLD's NS lookup timed out and the zone below it was still checked *)
C10_Witness ==
    /\ GlueDone
    /\ Len(GlueFullChain) = 3
    /\ ZoneOutcome(2) = "Timeout"
    /\ glue_results[GlueFullChain[2]].status = "error"
    /\ glue_results[GlueFullChain[3]].status = "success"
    /\ Cardinality(DOMAIN glue_results[GlueFullChain[3]].glue_records) = 2

(* the issue string of the handler around the parent walk *)
IssueParentError ==
    <<"Error checking glue records from parent zone: ", "error_msg">>

(* C11 as stated: when resolving or querying a parent nameserver raises
   during the check of a nameserver, that nameserver's record carries an issue
   string recording the failure, the zone keeps the status 'success', and
   every nameserver of the zone is still checked. *)
C11_Original ==
    \A z \in CheckedZones :
        LET zr == glue_results[GlueFullChain[z]]
        IN  \A ns \in ToSet(zr.nameservers) :
                LET t == Tried(z, ns)
                IN  (\E j \in 1..Len(t) : ~t[j].answered) =>
                        /\ ns \in DOMAIN zr.glue_records
                        /\ \E k \in 1..Len(zr.glue_records[ns].issues) :
                               zr.glue_records[ns].issues[k] = IssueParentError
                        /\ zr.status = "success"
                        /\ DOMAIN zr.glue_records = ToSet(zr.nameservers)

(* the nameserver records of the checked zones *)
NsRecords ==
    UNION { {glue_results[GlueFullChain[z]].glue_records[ns] :
                 ns \in DOMAIN glue_results[GlueFullChain[z]].glue_records} :
            z \in CheckedZones }

Differ(glue, resolved) ==
    glue # <<>> /\ resolved # <<>> /\ ToSet(glue) # ToSet(resolved)

HasMismatchIssue(g, t) ==
    \E k \in 1..Len(g.issues) :
        /\ Contains(g.issues[k], "don't match")
        /\ g.issues[k][2] = t

(* C12: glue_matches_resolution is false exactly when, for A or for AAAA, the
   glue records and the resolved records are both non-empty and differ as
   sets; an issue containing "don't match" is present for a type exactly when
   that type differs so; a type whose glue or whose resolution is empty never
   makes the flag false. *)
C12_MismatchIffSetsDiffer ==
    \A g \in NsRecords :
        LET differ_a == Differ(g.glue_a_records, g.resolved_a_records)
            differ_aaaa == Differ(g.glue_aaaa_records, g.resolved_aaaa_records)
        IN  /\ ~g.glue_matches_resolution <=> (differ_a \/ differ_aaaa)
            /\ HasMismatchIssue(g, "A") <=> differ_a
            /\ HasMismatchIssue(g, "AAAA") <=> differ_aaaa
            /\ Cardinality({k \in 1..Len(g.issues) :
                                Contains(g.issues[k], "don't match")})
                   = (IF differ_a THEN 1 ELSE 0) + (IF differ_aaaa THEN 1 ELSE 0)

(* a nameserver without A glue whose AAAA glue differs from its resolved AAAA
   record *)
C12_Witness ==
    /\ GlueDone
    /\ \E g \in NsRecords :
           /\ g.glue_a_records = <<>>
           /\ g.resolved_a_records # <<>>
           /\ g.glue_aaaa_records = <<"ip7">>
           /\ g.resolved_aaaa_records = <<"ip6">>
           /\ ~g.glue_matches_resolution

(* the labels of name n end with the labels of zone z: n is z or lies below z *)
AtOrBelow(n, z) ==
    LET ln == Split(n, Dot)
        lz == Split(z, Dot)
    IN  /\ Len(ln) >= Len(lz)
        /\ SubSeq(ln, Len(ln) - Len(lz) + 1, Len(ln)) = lz

ExampleCom == <<"e", "x", "a", "m", "p", "l", "e", ".", "c", "o", "m">>

Ns1ExampleCom == <<"n", "s", "1", ".", "e", "x", "a", "m", "p", "l", "e", ".", "c", "o", "m">>

Ns1OtherproviderNet == <<"n", "s", "1", ".", "o", "t", "h", "e", "r", "p", "r", "o", "v", "i", "d", "e", "r", ".", "n", "e", "t">>

BadexampleCom == <<"b", "a", "d", "e", "x", "a", "m", "p", "l", "e", ".", "c", "o", "m">>

(* C13: for a non-root zone z and a nameserver name n with its trailing dot
   stripped, expected_glue is true exactly when n is z or n ends with '.' + z:
   ns1.example.com is expected under example.com, ns1.otherprovider.net and
   badexample.com are not. *)
C13_ExpectedGlueIffInZone ==
    /\ \A z \in CheckedZones :
          LET zone == GlueFullChain[z]
              zr == glue_results[zone]
          IN  \A ns \in DOMAIN zr.glue_records :
                  /\ zone # Root
                  /\ zr.glue_records[ns].expected_glue <=>
                         (ns = zone \/ EndsWith(ns, <<Dot>> \o zone))
                  /\ zr.glue_records[ns].expected_glue <=> AtOrBelow(ns, zone)
    /\ ExpectedGlue(ExampleCom, Ns1ExampleCom)
    /\ ExpectedGlue(ExampleCom, ExampleCom)
    /\ ~ExpectedGlue(ExampleCom, Ns1OtherproviderNet)
    /\ ~ExpectedGlue(ExampleCom, BadexampleCom)

(* the zone's only nameserver has a name that ends with the characters of the
   zone without lying below it, and glue is not expected for it *)
C13_Witness ==
    /\ GlueDone
    /\ LET zone == GlueFullChain[Len(GlueFullChain)]
           zr == glue_results[zone]
       IN  /\ zr.nameservers = << <<"b">> \o zone >>
           /\ ~zr.glue_records[<<"b">> \o zone].expected_glue

----------------------------------------------------------------------------
(* Properties of test_last_level_ns_references *)

XrefDone == pc = "xref_done"

(* the response the k-th nameserver of the list gave *)
ResponseOf(k) == xref_log[k].resp

(* the NS names of the answer and authority sections of a response, without
   their trailing dots *)
NsNamesOf(resp) ==
    UNION { {RStrip(rr.rdatas[j], Dot) : j \in 1..Len(rr.rdatas)} :
              rr \in {x \in ToSet(resp.answer) \cup ToSet(resp.authority) :
                         x.rdtype = "NS"} }

(* name is among the names, trailing dots aside *)
Names(name, names) == \E n \in names : RStrip(n, Dot) = RStrip(name, Dot)

(* C14: self_reference of an entry is true exactly when the NS names of the
   answer and authority sections of that nameserver's own response include
   the nameserver's own name, trailing dots stripped. *)
C14_SelfReference ==
    XrefDone =>
        \A k \in 1..Len(nameservers) :
            LET ns == nameservers[k]
                collected == IF ResponseOf(k).kind = "answer"
                             THEN NsNamesOf(ResponseOf(k)) ELSE {}
            IN  /\ xref_log[k].ns = ns
                /\ xref_results[ns].self_reference <=> Names(ns, collected)

(* a nameserver given with its trailing dot that names itself in the
   authority section, next to one that answers without naming itself *)
C14_Witness ==
    /\ XrefDone
    /\ Len(nameservers) = 2
    /\ nameservers[1] = XrefNames[1] \o <<Dot>>
    /\ ResponseOf(1).answer = <<>>
    /\ Names(nameservers[1], NsNamesOf(ResponseOf(1)))
    /\ xref_results[nameservers[1]].self_reference
    /\ ResponseOf(2).kind = "answer"
    /\ NsNamesOf(ResponseOf(2)) # {}
    /\ ~xref_results[nameservers[2]].self_reference

(* the entries of two nameservers refer to each other *)
ReferEachOther(A, B) ==
    /\ Names(B, ToSet(xref_results[A].references))
    /\ Names(A, ToSet(xref_results[B].references))

(* C15 as stated: for any two nameservers A and B of the input list, written
   with or without the trailing dot, if A's references include B and B's
   references include A, then B is in A's mutual_references and A is in B's. *)
C15_Original ==
    XrefDone =>
        \A A, B \in ToSet(nameservers) :
            A # B /\ ReferEachOther(A, B) =>
                /\ Names(B, ToSet(xref_results[A].mutual_references))
                /\ Names(A, ToSet(xref_results[B].mutual_references))

(* C16: mutual_references of A is a subset of A's references, and B is in it
   only if B is an input nameserver whose own entry references A back; a B
   that does not reference A, or whose query failed, is in no such list. *)
C16_MutualNeedsBackReference ==
    XrefDone =>
        \A A \in ToSet(nameservers) :
            LET mutual == ToSet(xref_results[A].mutual_references)
            IN  /\ mutual \subseteq ToSet(xref_results[A].references)
                /\ \A B \in mutual :
                       /\ B \in ToSet(nameservers)
                       /\ Names(A, ToSet(xref_results[B].references))
                       /\ "error" \notin DOMAIN xref_results[B]
                /\ \A B \in ToSet(nameservers) :
                       ~Names(A, ToSet(xref_results[B].references)) =>
                           /\ ~Names(B, mutual)
                           /\ ~Names(A, ToSet(xref_results[B].mutual_references))

(* the first nameserver names both, the second only itself: the first one's
   mutual references hold itself and not the second *)
C16_Witness ==
    /\ XrefDone
    /\ nameservers = <<XrefNames[1], XrefNames[2]>>
    /\ xref_results[XrefNames[1]].references = <<XrefNames[2], XrefNames[1]>>
    /\ xref_results[XrefNames[2]].references = <<XrefNames[2]>>
    /\ xref_results[XrefNames[1]].mutual_references = <<XrefNames[1]>>
    /\ xref_results[XrefNames[2]].mutual_references = <<XrefNames[2]>>

(* C17: a nameserver whose A lookup or NS query raised has an entry with an
   error string, an empty reference list, self_reference false and no mutual
   references; every nameserver of the input is still queried, in order, and
   the result has exactly one entry per input nameserver. *)
C17_FailureIsLocal ==
    /\ Len(xref_log) = xidx
    /\ \A k \in 1..Len(xref_log) : xref_log[k].ns = nameservers[k]
    /\ XrefDone =>
          /\ xidx = Len(nameservers)
          /\ DOMAIN xref_results = ToSet(nameservers)
          /\ Cardinality(DOMAIN xref_results) = Len(nameservers)
          /\ \A k \in 1..Len(nameservers) :
                 LET e == xref_results[nameservers[k]]
                 IN  /\ ResponseOf(k).kind # "answer" <=> "error" \in DOMAIN e
                     /\ ResponseOf(k).kind # "answer" =>
                            /\ e.error = "error_msg"
                            /\ e.references = <<>>
                            /\ e.self_reference = FALSE
                            /\ e.mutual_references = <<>>

(* the first nameserver could not be resolved and the second one, queried
   after it, named both *)
C17_Witness ==
    /\ XrefDone
    /\ Len(nameservers) = 2
    /\ ResponseOf(1).kind = "resolve_fails"
    /\ "error" \in DOMAIN xref_results[nameservers[1]]
    /\ ResponseOf(2).kind = "answer"
    /\ Len(xref_results[nameservers[2]].references) = 2

----------------------------------------------------------------------------
(* Properties of the request pipeline *)

PipeDone == pc = "pipe_done"

(* the trace ended before the last zone of the chain or on an error there *)
StoppedEarly ==
    result # <<>> /\ (Len(result) < Len(FullChain) \/ LastNode.error_type # "None")

(* C18: the cross-reference is called only with the nameservers of the last
   trace node that start with no error tag, and not at all when there are
   none; so after a trace that stopped early no nameserver is
   cross-referenced, and every cross-referenced nameserver is a nameserver of
   the zone of the full target domain. *)
C18_OnlyLastLevelNs ==
    /\ \A k \in 1..Len(xref_log) :
          /\ xref_log[k].ns \in ToSet(LastNode.nameservers)
          /\ xref_log[k].domain = domain
          /\ ~IsSentinel(xref_log[k].ns)
          /\ LastNode.zone = FullChain[Len(FullChain)]
          /\ LastNode.zone = RStrip(domain, Dot)
          /\ Len(result) = Len(FullChain)
          /\ ~StoppedEarly
    /\ pc \in {"xref_start", "xref_query", "xref_done"} =>
          /\ nameservers # <<>>
          /\ nameservers = SelectSeq(LastNode.nameservers, LAMBDA ns : ~IsSentinel(ns))
    /\ PipeDone =>
          /\ (\A k \in 1..Len(LastNode.nameservers) : IsSentinel(LastNode.nameservers[k]))
                 => xref_log = <<>> /\ xref_results = EmptyDict
          /\ StoppedEarly => xref_log = <<>> /\ xref_results = EmptyDict
          /\ DOMAIN xref_results \subseteq
                 {ns \in ToSet(LastNode.nameservers) : ~IsSentinel(ns)}

(* a request with the glue check on whose trace was complete had both
   nameservers of its last node cross-referenced *)
C18_Witness ==
    /\ PipeDone
    /\ Len(result) = Len(FullChain)
    /\ Len(LastNode.nameservers) = 2
    /\ Len(xref_log) = 2
    /\ xref_log[2].ns = LastNode.nameservers[2]
    /\ check_glue

(* the issues of every zone of the glue report *)
AllGlueIssues ==
    UNION { {<<zone, k>> : k \in 1..Len(glue_results[zone].glue_issues)} :
              zone \in DOMAIN glue_results }

SeriousGlueIssues ==
    { i \in AllGlueIssues :
        LET issue == glue_results[i[1]].glue_issues[i[2]]
        IN  Contains(issue, "Missing glue") \/ Contains(issue, "don't match") }

(* C19 as stated: with a glue report, the glue contribution is the full
   weight 3 whenever no issue of any zone is serious, 'Unnecessary glue
   records' issues deduct nothing, and only with a serious issue the
   contribution is max(0, 3 - 1.0*major - 0.25*minor). *)
C19_Original ==
    PipeDone /\ glue_results # EmptyDict =>
        LET major == Cardinality(SeriousGlueIssues)
            minor == Cardinality(AllGlueIssues) - major
        IN  health.glue_points =
                IF major = 0 THEN 300 ELSE Max(0, 300 - 100 * major - 25 * minor)

(* C20 as stated: with cross-reference results, the cross-reference
   contribution is the full weight 2 exactly when no entry has an error and
   every entry without an error has self_reference true; otherwise it is
   max(0, 2 - 1.0*broken - 0.25*n), n counting the entries without an error
   whose self_reference is false, those without any reference included. *)
C20_Original ==
    PipeDone /\ xref_results # EmptyDict =>
        LET broken == Cardinality({ns \in DOMAIN xref_results :
                                      "error" \in DOMAIN xref_results[ns]})
            n == Cardinality({ns \in DOMAIN xref_results :
                                 /\ "error" \notin DOMAIN xref_results[ns]
                                 /\ ~xref_results[ns].self_reference})
        IN  /\ health.crossref_points = 200 <=> (broken = 0 /\ n = 0)
            /\ health.crossref_points = Max(0, 200 - 100 * broken - 25 * n)

(* some issue of the glue report contains the fragment *)
GlueReportMentions(fragment) ==
    \E i \in AllGlueIssues : Contains(glue_results[i[1]].glue_issues[i[2]], fragment)

(* a request for a two-label domain: every layer healthy and fast, the glue
   check on and without missing, mismatched or unnecessary glue, every
   nameserver of the last level answering and naming itself and the others *)
CleanRequest ==
    /\ PipeDone
    /\ Len(FullChain) = 3
    /\ Len(result) = 3
    /\ \A k \in 1..Len(result) : ~HasErrors(result[k]) /\ ~result[k].is_slow
    /\ check_glue
    /\ glue_results # EmptyDict
    /\ \A zone \in DOMAIN glue_results \ {Root} : glue_results[zone].status = "success"
    /\ ~GlueReportMentions("Missing glue")
    /\ ~GlueReportMentions("don't match")
    /\ ~GlueReportMentions("Unnecessary glue records")
    /\ DOMAIN xref_results = ToSet(nameservers)
    /\ nameservers # <<>>
    /\ \A A \in ToSet(nameservers) :
          /\ "error" \notin DOMAIN xref_results[A]
          /\ xref_results[A].self_reference
          /\ \A B \in ToSet(nameservers) : Names(B, ToSet(xref_results[A].references))

(* C21 as stated: such a request has the health score 10.0 and a breakdown
   without a line that starts with a minus sign. *)
C21_Original ==
    CleanRequest =>
        /\ health.score = 100
        /\ \A k \in 1..Len(health.breakdown) : health.breakdown[k].sign # "-"

----------------------------------------------------------------------------
(* calculate_health_score called on its own: the traces, glue reports and
   cross-reference tables are any a caller can pass, not only those the
   pipeline produces *)

MaxScoreLayers == 4

NodeKinds == {"healthy", "slow", "error", "error_slow"}

(* the fields of a trace node the scorer reads *)
ScoreNode(zone, kind) ==
    [zone |-> zone,
     nameservers |-> IF kind \in {"error", "error_slow"}
                     THEN <<SentinelFor("Timeout", zone)>>
                     ELSE <<NsName("n", zone)>>,
     is_slow |-> kind \in {"slow", "error_slow"}]

ScoreTraces ==
    UNION { { [k \in 1..n |-> ScoreNode(BuildChain(DomainOfDepth(n - 1))[k], kinds[k])] :
                kinds \in [1..n -> NodeKinds] } : n \in 0..MaxScoreLayers }

ZoneReport(zone, issues) ==
    [NewZoneResult(zone) EXCEPT !.status = "success", !.glue_issues = issues]

ScoreGlueReports ==
    LET a == DomainOfDepth(1)
        ba == DomainOfDepth(2)
        missing == NsName("n", a) \o <<": ">> \o IssueMissing("A")
        mismatch == NsName("n", ba) \o <<": ">> \o IssueMismatch("A")
        unnecessary == OutOfZoneName \o <<": ">> \o IssueUnnecessary
    IN  { EmptyDict,
          DictSet(EmptyDict, a, ZoneReport(a, <<>>)),
          DictSet(EmptyDict, Root, ZoneReport(Root, <<RootSkipIssue(Root)>>)),
          DictSet(EmptyDict, a, ZoneReport(a, <<unnecessary>>)),
          DictSet(EmptyDict, a, ZoneReport(a, <<missing>>)),
          DictSet(DictSet(EmptyDict, a, ZoneReport(a, <<missing, missing>>)),
                  ba, ZoneReport(ba, <<mismatch, mismatch, unnecessary>>)) }

XrefKinds == {"consistent", "broken", "silent", "inconsistent"}

(* an entry of the table for nameserver ns, peer being a different name *)
ScoreXrefEntry(ns, peer, kind) ==
    LET refs == CASE kind = "consistent" -> <<ns>>
                  [] kind = "inconsistent" -> <<peer>>
                  [] OTHER -> <<>>
        e == [references |-> refs,
              self_reference |-> kind = "consistent",
              mutual_references |-> <<>>]
    IN  IF kind = "broken" THEN ("error" :> "error_msg") @@ e ELSE e

(* a table and the order of its keys *)
ScoreXrefs ==
    LET n1 == XrefNames[1]
        n2 == XrefNames[2]
    IN  { [names |-> <<>>, table |-> EmptyDict] }
        \cup { [names |-> <<n1>>,
                table |-> DictSet(EmptyDict, n1, ScoreXrefEntry(n1, n2, k1))] :
                 k1 \in XrefKinds }
        \cup { [names |-> <<n1, n2>>,
                table |-> DictSet(DictSet(EmptyDict, n1, ScoreXrefEntry(n1, n2, k1)),
                                  n2, ScoreXrefEntry(n2, XrefNames[3], k2))] :
                 k1 \in XrefKinds, k2 \in XrefKinds }

InitScore ==
    /\ result \in ScoreTraces
    /\ glue_results \in ScoreGlueReports
    /\ \E x \in ScoreXrefs : nameservers = x.names /\ xref_results = x.table
    /\ domain = DomainOfDepth(Max(0, Len(result) - 1))
    /\ pc = "score_start"
    /\ verbose = FALSE
    /\ chain = <<>>
    /\ idx = 0
    /\ should_continue = TRUE
    /\ queries = <<>>
    /\ lookups = <<>>
    /\ gchain = <<>>
    /\ gidx = 0
    /\ glue_log = <<>>
    /\ xidx = 0
    /\ xref_log = <<>>
    /\ NoPipeline
    /\ NoRequest

ScoreCall(tie) ==
    /\ pc = "score_start"
    /\ health' = CalculateHealthScore(result, glue_results, xref_results, nameservers, tie)
    /\ pc' = "score_done"
    /\ UNCHANGED <<domain, traceVars, glueVars, xrefVars, check_glue, reqVars>>

ScoreCallAny == \E tie \in {"down", "up"} : ScoreCall(tie)

SpecScore == InitScore /\ [][ScoreCallAny]_vars

ScoreDone == pc = "score_done"

(* C22: whatever the trace, the glue report and the cross-reference table,
   the returned score is between 0 and 10, max_score is 10 and percentage is
   score / max_score * 100. *)
C22_ScoreBounds ==
    ScoreDone =>
        /\ 0 <= health.score
        /\ health.score <= 100
        /\ health.max_score = 100
        /\ health.percentage * health.max_score = health.score * 100

(* a trace of four zones whose parts add up to more than 10 points *)
C22_Witness ==
    /\ ScoreDone
    /\ Len(result) > 3
    /\ health.layer_points + health.glue_points + health.crossref_points > 1000
    /\ health.score = 100

(* the trace with the error string of node k replaced by a valid nameserver
   and is_slow set to false *)
Repaired(trace, k) ==
    [trace EXCEPT ![k].nameservers = <<NsName("n", trace[k].zone)>>,
                  ![k].is_slow = FALSE]

ScoreOf(trace, tie) ==
    CalculateHealthScore(trace, glue_results, xref_results, nameservers, tie).score

(* C23: with the glue report and the cross-reference table held fixed,
   replacing the error string of one trace node by a valid nameserver and
   setting its is_slow to false never decreases the score. *)
C23_RepairNeverLowers ==
    ScoreDone =>
        \A k \in 1..Len(result) :
            HasErrors(result[k]) =>
                \A tie \in {"down", "up"} : ScoreOf(Repaired(result, k), tie) >= health.score

(* a slow node with an error string whose repair raises the score *)
C23_Witness ==
    /\ ScoreDone
    /\ \E k \in 1..Len(result) :
          /\ HasErrors(result[k])
          /\ result[k].is_slow
          /\ \A tie \in {"down", "up"} : ScoreOf(Repaired(result, k), tie) > health.score

RECURSIVE SumSeq(_, _)
SumSeq(seq, n) == IF n = 0 THEN 0 ELSE seq[n] + SumSeq(seq, n - 1)

(* the weight of the node at index i, in hundredths of a point *)
StatedWeight(i) == IF i >= 2 THEN 300 ELSE 100

NoSentinel(node) == \A k \in 1..Len(node.nameservers) : ~IsSentinel(node.nameservers[k])

(* what the node at index i earns, in hundredths of a point *)
StatedEarning(node, i) ==
    (IF NoSentinel(node) THEN (7 * StatedWeight(i)) \div 10 ELSE 0)
    + (IF ~node.is_slow THEN (3 * StatedWeight(i)) \div 10 ELSE 0)

(* C28: the node at index i earns 0.7*w if and only if none of its
   nameservers is an error string, plus 0.3*w if and only if it is not slow,
   with w = 1, 1, 3, 3, ... whatever the other nodes are; its two breakdown
   lines stand at the node's place in the trace order. *)
C28_LayerContribution ==
    ScoreDone =>
        /\ health.layer_points
             = SumSeq([k \in 1..Len(result) |-> StatedEarning(result[k], k - 1)], Len(result))
        /\ Len(health.breakdown) >= 2 * Len(result)
        /\ \A k \in 1..Len(result) :
              LET first == health.breakdown[2 * k - 1]
                  second == health.breakdown[2 * k]
                  w == StatedWeight(k - 1)
              IN  /\ first.text[2] = ToString(k) /\ second.text[2] = ToString(k)
                  /\ Contains(first.text, ") is healthy") <=> NoSentinel(result[k])
                  /\ Contains(first.text, ") has errors") <=> ~NoSentinel(result[k])
                  /\ first.tenths = IF NoSentinel(result[k]) THEN (7 * w) \div 100 ELSE 0
                  /\ Contains(second.text, ") has good response time") <=> ~result[k].is_slow
                  /\ Contains(second.text, ") has slow response") <=> result[k].is_slow
                  /\ second.tenths = IF ~result[k].is_slow THEN (3 * w) \div 100 ELSE 0
        /\ \A k \in 1..Len(health.breakdown) :
              Contains(health.breakdown[k].text, " points: Layer ") => k <= 2 * Len(result)

(* a failing but fast third layer among healthy ones: it earns 0.9 *)
C28_Witness ==
    /\ ScoreDone
    /\ Len(result) >= 3
    /\ ~NoSentinel(result[3]) /\ ~result[3].is_slow
    /\ NoSentinel(result[2]) /\ result[2].is_slow
    /\ health.breakdown[5].tenths = 0
    /\ health.breakdown[6].tenths = 9
    /\ health.breakdown[3].tenths = 7

(* a line of the glue block, a line of the cross-reference block *)
IsGlueLine(line) ==
    \/ Contains(line.text, " points: All glue records are correct")
    \/ Contains(line.text, " major glue ")
    \/ Contains(line.text, " minor glue ")

IsCrossRefLine(line) ==
    \/ Contains(line.text, " points: All nameserver references are consistent")
    \/ Contains(line.text, " broken ")
    \/ Contains(line.text, " inconsistent nameserver ")
    \/ line.sign = "bullet"

LayerLinesOnly(lines, n) == Len(lines) = 2 * n

(* C30: an empty glue report adds no points and no line, and so does an
   empty cross-reference table; a request whose last node holds an error
   string runs no cross-reference and earns none of its 2 points, a request
   with the glue check off earns none of the 3 glue points. *)
C30_EmptyPartsEarnNothing ==
    PipeDone =>
        /\ glue_results = EmptyDict =>
              /\ health.glue_points = 0
              /\ \A k \in 1..Len(health.breakdown) : ~IsGlueLine(health.breakdown[k])
        /\ xref_results = EmptyDict =>
              /\ health.crossref_points = 0
              /\ \A k \in 1..Len(health.breakdown) : ~IsCrossRefLine(health.breakdown[k])
        /\ HasErrors(result[Len(result)]) =>
              /\ xref_log = <<>>
              /\ xref_results = EmptyDict
              /\ health.crossref_points = 0
        /\ ~check_glue =>
              /\ glue_log = <<>>
              /\ glue_results = EmptyDict
              /\ health.glue_points = 0

(* a request with the glue check off whose trace ends in an error string:
   the score is what the layers earn *)
C30_Witness ==
    /\ PipeDone
    /\ ~check_glue
    /\ HasErrors(result[Len(result)])
    /\ health.layer_points > 0
    /\ LayerLinesOnly(health.breakdown, Len(result))

----------------------------------------------------------------------------
(* trace_delegation against a resolver whose NS answers may hold any name the
   wire format allows: a label is any string of octets, and to_text prints a
   colon as it is, so the text of a name can begin with "Error:", "NXDOMAIN:"
   or "Timeout:" (a space is printed escaped, which rules out the two tags
   that hold one) *)

MaxNameLabels == 2

NameDomains == {DomainOfDepth(n) : n \in 0..MaxNameLabels}

TagLabels == {"Error:", "NXDOMAIN:", "Timeout:"}

(* r.to_text() of an NS record whose first label is the text of a tag *)
TagLikeName(label, zone) == NsName(label, zone)

NamedNsAnswers(zone) ==
    { <<NsName("n", zone)>> } \cup { <<TagLikeName(label, zone)>> : label \in TagLabels }

InitTraceNames ==
    /\ domain \in NameDomains
    /\ verbose \in BOOLEAN
    /\ pc = "trace_start"
    /\ chain = <<>>
    /\ idx = 0
    /\ should_continue = TRUE
    /\ result = <<>>
    /\ queries = <<>>
    /\ lookups = <<>>
    /\ NoGlue
    /\ NoXref
    /\ NoPipeline
    /\ NoRequest

TraceStepNamed ==
    /\ pc = "trace_walk"
    /\ idx < Len(chain)
    /\ \E outcome \in Outcomes, rt \in RespTimes :
          \E ns_answer \in (IF outcome = "OK" THEN NamedNsAnswers(chain[idx + 1])
                                               ELSE {<<>>}) :
             \E okLookups \in (IF outcome = "OK" /\ verbose
                                 THEN {(1..Len(ns_answer)) \X RecordTypes} ELSE {{}}) :
                 TraceStep(outcome, rt, ns_answer, okLookups)

NextTraceNames == TraceStart \/ TraceStepNamed \/ TraceReturn

SpecTraceNames == InitTraceNames /\ [][NextTraceNames]_vars

(* the tag that stands for an error type *)
TagOf(error_type) ==
    CASE error_type = "NXDOMAIN" -> "NXDOMAIN:"
      [] error_type = "NO_NS" -> "No NS records:"
      [] error_type = "TIMEOUT" -> "Timeout:"
      [] error_type = "NO_NAMESERVERS" -> "No nameservers:"
      [] error_type = "OTHER" -> "Error:"

(* C25 as stated: in every trace node error_type is none exactly when no
   nameserver starts with one of the five tags, and a node whose error_type
   is set holds exactly one nameserver string, which starts with the tag of
   that error type. *)
C25_Original ==
    \A k \in 1..Len(result) :
        /\ result[k].error_type = "None" <=> ~HasErrors(result[k])
        /\ result[k].error_type # "None" =>
              /\ Len(result[k].nameservers) = 1
              /\ StartsWith(result[k].nameservers[1], TagOf(result[k].error_type))

(* the per-nameserver records of the report: <<zone, ns>> *)
GlueRecordKeys ==
    UNION { {<<zone, ns>> : ns \in DOMAIN glue_results[zone].glue_records} :
              zone \in DOMAIN glue_results }

HasIssue(g, issue) == \E k \in 1..Len(g.issues) : g.issues[k] = issue

Occurrences(list, x) == Cardinality({k \in 1..Len(list) : list[k] = x})

(* C29: for each nameserver of a glue report, "Missing glue A" (AAAA) is
   reported exactly when glue is expected, no glue of that type was found and
   the nameserver resolves for that type; "Unnecessary glue records" exactly
   when glue is not expected and glue of either type was found; no nameserver
   has both, and each of its issues stands once in the zone's list, prefixed
   by the nameserver's name. *)
C29_MissingAndUnnecessary ==
    \A key \in GlueRecordKeys :
        LET zr == glue_results[key[1]]
            ns == key[2]
            g == zr.glue_records[ns]
        IN  /\ HasIssue(g, IssueMissing("A")) <=>
                 (g.expected_glue /\ g.glue_a_records = <<>> /\ g.resolved_a_records # <<>>)
            /\ HasIssue(g, IssueMissing("AAAA")) <=>
                 (g.expected_glue /\ g.glue_aaaa_records = <<>>
                    /\ g.resolved_aaaa_records # <<>>)
            /\ HasIssue(g, IssueUnnecessary) <=>
                 (~g.expected_glue /\ (g.glue_a_records # <<>> \/ g.glue_aaaa_records # <<>>))
            /\ ~(HasIssue(g, IssueUnnecessary)
                   /\ (HasIssue(g, IssueMissing("A")) \/ HasIssue(g, IssueMissing("AAAA"))))
            /\ \A k \in 1..Len(g.issues) :
                   Occurrences(zr.glue_issues, ns \o <<": ">> \o g.issues[k]) = 1

(* a zone whose parent returns A glue for an in-zone nameserver that also
   resolves for AAAA and for an out-of-zone nameserver: the first has the
   missing-glue issue for AAAA only, the second the unnecessary-glue issue *)
C29_Witness ==
    \E k1 \in GlueRecordKeys, k2 \in GlueRecordKeys :
        LET g1 == glue_results[k1[1]].glue_records[k1[2]]
            g2 == glue_results[k2[1]].glue_records[k2[2]]
        IN  /\ ~HasIssue(g1, IssueMissing("A"))
            /\ HasIssue(g1, IssueMissing("AAAA"))
            /\ HasIssue(g2, IssueUnnecessary)

----------------------------------------------------------------------------
(* trace_delegation called twice for one domain, once with verbose and once
   without, against a resolver that gives the second call the NS answers it
   gave the first; the A and AAAA lookups of the verbose call answer or fail
   freely *)

MaxPairLabels == 2

PairDomains == {DomainOfDepth(n) : n \in 0..MaxPairLabels}

InitTracePair ==
    /\ domain \in PairDomains
    /\ verbose \in BOOLEAN
    /\ pc = "trace_start"
    /\ chain = <<>>
    /\ idx = 0
    /\ should_continue = TRUE
    /\ result = <<>>
    /\ queries = <<>>
    /\ lookups = <<>>
    /\ NoGlue
    /\ NoXref
    /\ NoPipeline
    /\ NoRequest

(* the first call: any outcome of every NS query *)
PairFirstStep ==
    /\ pc = "trace_walk"
    /\ idx < Len(chain)
    /\ prior = <<>>
    /\ \E outcome \in Outcomes :
          \E ns_answer \in (IF outcome = "OK" THEN NsAnswers(chain[idx + 1])
                                               ELSE {<<>>}) :
             \E okLookups \in (IF outcome = "OK" /\ verbose
                                 THEN LookupOutcomes(ns_answer) ELSE {{}}) :
                 TraceStep(outcome, SlowThresholdMs, ns_answer, okLookups)

(* the first call has returned: its results are kept and the second call is
   made with the other value of verbose *)
TraceAgain ==
    /\ pc = "trace_done"
    /\ prior = <<>>
    /\ prior' = [result |-> result, chain |-> chain, verbose |-> verbose,
                 queries |-> queries, lookups |-> lookups]
    /\ verbose' = ~verbose
    /\ pc' = "trace_start"
    /\ chain' = <<>>
    /\ idx' = 0
    /\ should_continue' = TRUE
    /\ result' = <<>>
    /\ queries' = <<>>
    /\ lookups' = <<>>
    /\ UNCHANGED <<domain, glueVars, xrefVars, check_glue, health,
                   request, response, other, resolver, answers>>

(* the outcome of the NS query that gave a node *)
OutcomeOfNode(node) ==
    CASE node.error_type = "None" -> "OK"
      [] node.error_type = "NXDOMAIN" -> "NXDOMAIN"
      [] node.error_type = "NO_NS" -> "NoAnswer"
      [] node.error_type = "TIMEOUT" -> "Timeout"
      [] node.error_type = "NO_NAMESERVERS" -> "NoNameservers"
      [] node.error_type = "OTHER" -> "Exception"

(* the second call: the NS query of a zone the first call asked for ends as
   it did then, any other NS query ends in any way *)
PairSecondStep ==
    /\ pc = "trace_walk"
    /\ idx < Len(chain)
    /\ prior # <<>>
    /\ \E outcome \in (IF idx < Len(prior.result)
                         THEN {OutcomeOfNode(prior.result[idx + 1])} ELSE Outcomes),
          rt \in RespTimes :
          \E ns_answer \in (IF outcome # "OK" THEN {<<>>}
                            ELSE IF idx < Len(prior.result)
                            THEN {prior.result[idx + 1].nameservers}
                            ELSE NsAnswers(chain[idx + 1])) :
             \E okLookups \in (IF outcome = "OK" /\ verbose
                                 THEN LookupOutcomes(ns_answer) ELSE {{}}) :
                 TraceStep(outcome, rt, ns_answer, okLookups)

NextTracePair ==
    TraceStart \/ PairFirstStep \/ TraceReturn \/ TraceAgain \/ PairSecondStep

SpecTracePair == InitTracePair /\ [][NextTracePair]_vars

BothReturned == pc = "trace_done" /\ prior # <<>>

(* C24: for the same outcomes of the NS queries, the verbose and the
   non-verbose call return the same chain and the same nodes in zone,
   nameservers, error_type and trace_stopped, whatever the A and AAAA lookups
   do; those lookups are issued only by the verbose call and only for the
   nameservers of a zone whose NS query has answered. *)
C24_VerboseChangesNoStatus ==
    /\ BothReturned =>
          /\ verbose # prior.verbose
          /\ chain = prior.chain
          /\ Len(result) = Len(prior.result)
          /\ \A k \in 1..Len(result) :
                /\ result[k].zone = prior.result[k].zone
                /\ result[k].nameservers = prior.result[k].nameservers
                /\ result[k].error_type = prior.result[k].error_type
                /\ result[k].trace_stopped = prior.result[k].trace_stopped
    /\ ~verbose => lookups = <<>>
    /\ \A j \in 1..Len(lookups) :
          \E k \in 1..Len(result) :
              /\ result[k].error_type = "None"
              /\ lookups[j][1] \in ToSet(result[k].nameservers)
    /\ Len(lookups) = 2 * SumSeq([k \in 1..Len(result) |->
                                     IF verbose /\ result[k].error_type = "None"
                                     THEN Len(result[k].nameservers) ELSE 0],
                                 Len(result))

(* both calls have returned a trace of three nodes that stopped on an error;
   the verbose call made lookups, and its node texts differ from the other's *)
C24_Witness ==
    /\ BothReturned
    /\ Len(result) = 3
    /\ result[3].error_type = "OTHER"
    /\ Len(lookups) + Len(prior.lookups) > 0
    /\ result[2].verbose # prior.result[2].verbose

----------------------------------------------------------------------------
(* The request handlers api_trace_domain, api_delegation, export_data and
   api_nameservers: the validation of the request, then the DNS work.  Here a
   domain is a string of characters: a letter, a capital letter, a digit, a
   hyphen, a dot and a blank. *)

MaxRawLen == 5

RawChars == {"a", "A", "1", "-", Dot, " "}

IsLetter(c) == c \in {"a", "A"}

IsAlnum(c) == IsLetter(c) \/ c = "1"

(* [a-zA-Z0-9-_] *)
IsLabelChar(c) == IsAlnum(c) \/ c \in {"-", "_"}

(* [a-zA-Z0-9](?:[a-zA-Z0-9-_]{0,61}[a-zA-Z0-9])? *)
LabelMatches(l) ==
    /\ Len(l) >= 1
    /\ Len(l) <= 63
    /\ IsAlnum(l[1])
    /\ IsAlnum(l[Len(l)])
    /\ \A k \in 1..Len(l) : IsLabelChar(l[k])

(* [a-zA-Z]{2,} *)
TldMatches(l) == Len(l) >= 2 /\ \A k \in 1..Len(l) : IsLetter(l[k])

MAX_DOMAIN_LENGTH == 253

(* DOMAIN_REGEX.match: 4 to 253 characters, one or more labels each followed
   by a dot, then a last label of two or more letters *)
DomainRegexMatches(str) ==
    LET labels == Split(str, Dot)
    IN  /\ Len(str) >= 4
        /\ Len(str) <= 253
        /\ Len(labels) >= 2
        /\ \A k \in 1..(Len(labels) - 1) : LabelMatches(labels[k])
        /\ TldMatches(labels[Len(labels)])

is_valid_domain(d) ==
    /\ d # <<>>
    /\ Len(d) <= MAX_DOMAIN_LENGTH
    /\ DomainRegexMatches(Strip(d, Dot))

MAX_DNS_SERVERS ==
    {"system", "8.8.8.8", "8.8.4.4", "1.1.1.1", "1.0.0.1", "9.9.9.9",
     "208.67.222.222", "208.67.220.220"}

(* the values of dns_server a request is made with *)
DnsServerInputs == {"system", "8.8.8.8", "9.9.9.9", "10.0.0.1", "999.999.999.999",
                    "invalid", ""}

(* IP_REGEX.match on those values: four numbers of at most 255 *)
IpRegexMatches(server) == server \in {"8.8.8.8", "9.9.9.9", "10.0.0.1"}

is_valid_dns_serverAnyIp(server) ==
    /\ server # ""
    /\ (server = "system" \/ IpRegexMatches(server))

is_valid_dns_server(server) ==
    /\ server # ""
    /\ (server = "system" \/ (server \in MAX_DNS_SERVERS /\ IpRegexMatches(server)))

(* str.lower() and str.strip() *)
Lower(str) == [k \in 1..Len(str) |-> IF str[k] = "A" THEN "a" ELSE str[k]]

StripBlanks(str) == Strip(str, " ")

Endpoints == {"trace", "delegation", "export", "nameservers"}

RawDomains == SeqsUpTo(RawChars, MaxRawLen)

SampleDomains == { <<"a", Dot, "a", "a">>, <<"a", Dot, Dot, "a", "a">> }

(* a request: the domain of the path or of the body, the dns_server argument
   (absent means 'system'), for a POST whether the body holds anything, and
   its check_glue flag.  The path of a GET request has a domain that is not
   empty. *)
Requests ==
    { [endpoint |-> e, domain |-> d, dns_server |-> "system", body |-> TRUE,
       check_glue |-> TRUE] :
          e \in Endpoints, d \in RawDomains }
    \cup { [endpoint |-> e, domain |-> d, dns_server |-> server, body |-> TRUE,
            check_glue |-> TRUE] :
              e \in Endpoints, d \in SampleDomains, server \in DnsServerInputs }
    \cup { [endpoint |-> "delegation", domain |-> d, dns_server |-> "system",
            body |-> b, check_glue |-> c] :
              d \in SampleDomains, b \in BOOLEAN, c \in BOOLEAN }

InitRequest ==
    /\ request \in {r \in Requests : r.endpoint # "delegation" => r.domain # <<>>}
    /\ response = <<>>
    /\ pc = "request"
    /\ domain = <<>>
    /\ NoTrace
    /\ NoGlue
    /\ NoXref
    /\ NoPipeline
    /\ prior = <<>>
    /\ other = <<>>
    /\ resolver = GlobalResolver
    /\ answers = <<>>

(* the domain the handler validates: api_delegation trims it and puts it in
   lower case, the other handlers take it from the path as it is *)
HandlerDomain(r) ==
    IF r.endpoint = "delegation" THEN Lower(StripBlanks(r.domain)) ELSE r.domain

(* the message of the first check that fails, "" if none does *)
ValidationError(r) ==
    IF r.endpoint = "delegation" /\ ~r.body THEN "Missing request body"
    ELSE IF r.endpoint = "delegation" /\ HandlerDomain(r) = <<>> THEN "Domain is required"
    ELSE IF ~is_valid_domain(HandlerDomain(r)) THEN "Invalid domain format"
    ELSE IF ~is_valid_dns_server(r.dns_server) THEN "Invalid DNS server"
    ELSE ""

(* the handler up to its first DNS call: an invalid request is answered
   with 400 *)
Validate ==
    /\ pc = "request"
    /\ LET err == ValidationError(request)
       IN  IF err # ""
           THEN /\ response' = [status |-> 400, error |-> err]
                /\ pc' = "responded"
                /\ UNCHANGED <<domain, check_glue>>
           ELSE /\ response' = response
                /\ domain' = HandlerDomain(request)
                /\ check_glue' = (request.endpoint = "export" \/ request.check_glue)
                /\ pc' = IF request.endpoint = "nameservers" THEN "ns_lookup"
                         ELSE "trace_start"
    /\ UNCHANGED <<traceVars, glueVars, xrefVars, health, request, prior, other, resolver, answers>>

(* the resolver of a valid request: an NS query answers or ends in NXDOMAIN *)
ReqTraceStep ==
    /\ pc = "trace_walk"
    /\ idx < Len(chain)
    /\ \E outcome \in {"OK", "NXDOMAIN"} :
          TraceStep(outcome, SlowThresholdMs,
                    IF outcome = "OK" THEN <<NsName("n", chain[idx + 1])>> ELSE <<>>, {})

ReqGlueCheckZone ==
    /\ pc = "glue_walk"
    /\ gidx < Len(gchain)
    /\ gidx # 0
    /\ GlueCheckZone(PlainEnv(gchain[gidx + 1], gchain[gidx]))

ReqXrefQuery ==
    /\ pc = "xref_query"
    /\ xidx < Len(nameservers)
    /\ XrefQuery(Response("answer", <<NsRRset(nameservers)>>, <<>>))

(* api_delegation and export_data after the trace *)
ReqPipeline ==
    /\ request.endpoint \in {"delegation", "export"}
    /\ \/ PipeCheckGlue \/ GlueStart \/ GlueSkipRoot \/ ReqGlueCheckZone \/ GlueReturn
       \/ PipeSelect
       \/ XrefStart \/ ReqXrefQuery \/ XrefFinish
       \/ PipeScoreAny

(* api_nameservers: the NS query for the domain and the A and AAAA lookups of
   the nameservers it names; a failing NS query is answered with 500 *)
NameserversLookup ==
    /\ pc = "ns_lookup"
    /\ \E outcome \in {"OK", "NXDOMAIN"} :
          LET ns_list == <<NsName("n", RStrip(domain, Dot))>>
          IN  /\ queries' = Append(queries, domain)
              /\ lookups' = IF outcome = "OK" THEN lookups \o LookupsOf(ns_list, 1)
                            ELSE lookups
              /\ response' = IF outcome = "OK"
                             THEN [status |-> 200, nameservers |-> ns_list]
                             ELSE [status |-> 500, error |-> "error_msg"]
    /\ pc' = "responded"
    /\ UNCHANGED <<domain, verbose, chain, idx, should_continue, result, glueVars,
                   xrefVars, check_glue, health, request, prior, other, resolver, answers>>

(* the handler returns what it has computed *)
Respond ==
    /\ \/ pc = "trace_done" /\ request.endpoint = "trace"
       \/ pc = "pipe_done" /\ request.endpoint \in {"delegation", "export"}
    /\ response' = [status |-> 200, trace |-> result]
    /\ pc' = "responded"
    /\ UNCHANGED <<domain, traceVars, glueVars, xrefVars, check_glue, health,
                   request, prior, other, resolver, answers>>

NextRequest ==
    \/ Validate
    \/ TraceStart \/ ReqTraceStep \/ TraceReturn
    \/ ReqPipeline
    \/ NameserversLookup
    \/ Respond

SpecRequest == InitRequest /\ [][NextRequest]_vars

(* the resolver IPs the service allows *)
AllowListedIps ==
    {"8.8.8.8", "8.8.4.4", "1.1.1.1", "1.0.0.1", "9.9.9.9", "208.67.222.222",
     "208.67.220.220"}

(* the request is one the claim is about: its domain, as the handler reads
   it, fails is_valid_domain, or its dns_server is neither 'system' nor an
   allowed IP *)
InvalidRequest ==
    \/ ~is_valid_domain(HandlerDomain(request))
    \/ request.dns_server \notin ({"system"} \cup AllowListedIps)

NoDnsQuery ==
    /\ queries = <<>>
    /\ lookups = <<>>
    /\ glue_log = <<>>
    /\ xref_log = <<>>

(* C27: a trace, delegation, export or nameservers request whose domain (as
   the handler reads it: api_delegation trims and lower-cases it first) fails
   is_valid_domain, or whose dns_server is neither 'system' nor an allowed
   IP, is answered with 400 and an error body, and no DNS query is made for
   it. *)
C27_InvalidRequestRejected ==
    InvalidRequest =>
        /\ NoDnsQuery
        /\ pc \in {"request", "responded"}
        /\ pc = "responded" =>
              /\ response.status = 400
              /\ "error" \in DOMAIN response
              /\ response.error # ""

(* an export request for a well-formed domain with a resolver IP that is an
   address but not an allowed one has been answered *)
C27_Witness ==
    /\ pc = "responded"
    /\ request.endpoint = "export"
    /\ is_valid_domain(request.domain)
    /\ request.dns_server = "10.0.0.1"
    /\ response.status = 400

----------------------------------------------------------------------------
(* Two requests served by one process.  A request is first served alone and
   what it returned is kept; then the same request is served again while a
   second request is served too, their steps interleaved in any order.  The
   variables hold the locals of the request that runs now, other holds the
   locals of the request that waits; the resolver object of the module is
   the one thing both can reach.  What a query is answered depends on the
   upstream it is sent to and stays the same during the run. *)

MaxTwoLabels == 2

TwoDomains == {DomainOfDepth(n) : n \in 2..MaxTwoLabels}

Upstreams == {"system", "8.8.8.8"}

(* what an upstream makes of the traced domain: delegated cleanly, not
   existing, or delegated without glue to servers that cannot be reached *)
Scenarios == {"clean", "nxdomain", "lame"}

AnswerSets ==
    { [up |-> u, tie |-> t] : u \in [Upstreams -> Scenarios], t \in {"down", "up"} }

ResolverAfterCreateInPlace(r, dns_server) ==
    IF dns_server \in {"", "system"} THEN r ELSE [r EXCEPT !.nameservers = dns_server]

(* the module's resolver after create_custom_resolver(dns_server) has run:
   the function builds a new object and leaves this one as it is *)
ResolverAfterCreate(r, dns_server) == r

(* create_custom_resolver(dns_server): None for 'system', else a new resolver *)
CreateCustomResolver(dns_server) ==
    IF dns_server \in {"", "system"} THEN [none |-> TRUE]
    ELSE [GlobalResolver EXCEPT !.nameservers = dns_server]

(* query_resolver = custom_resolver if custom_resolver else resolver *)
QueryResolver(custom_resolver, module_resolver) ==
    IF "none" \notin DOMAIN custom_resolver THEN custom_resolver ELSE module_resolver

(* the upstream that answers the queries of trace_delegation and
   check_glue_records for the running request *)
RequestUpstream ==
    QueryResolver(CreateCustomResolver(request.dns_server), resolver).nameservers

OwnZone(d) == BuildChain(d)[Len(BuildChain(d))]

TraceOutcomeIn(scenario, zone, d) ==
    IF scenario = "nxdomain" /\ zone = OwnZone(d) THEN "NXDOMAIN" ELSE "OK"

GlueEnvIn(scenario, zone, parent_zone, d) ==
    LET plain == PlainEnv(zone, parent_zone)
    IN  IF scenario = "nxdomain" /\ zone = OwnZone(d)
        THEN [outcome |-> "NXDOMAIN", ns_answer |-> <<>>, parent_answer |-> <<>>,
              behaviour |-> <<>>, resolved |-> [a |-> <<>>, aaaa |-> <<>>]]
        ELSE IF scenario = "lame"
        THEN [plain EXCEPT !.behaviour = [k \in DOMAIN plain.behaviour |-> "no_glue"]]
        ELSE plain

XrefResponseIn(scenario, names) ==
    IF scenario = "lame" THEN Response("resolve_fails", <<>>, <<>>)
    ELSE Response("answer", <<NsRRset(names)>>, <<>>)

(* the locals of the running request *)
Locals ==
    [domain |-> domain, verbose |-> verbose, pc |-> pc, chain |-> chain, idx |-> idx,
     should_continue |-> should_continue, result |-> result, queries |-> queries,
     lookups |-> lookups, gchain |-> gchain, glue_results |-> glue_results,
     gidx |-> gidx, glue_log |-> glue_log, nameservers |-> nameservers,
     xref_results |-> xref_results, xidx |-> xidx, xref_log |-> xref_log,
     check_glue |-> check_glue, health |-> health, request |-> request,
     response |-> response]

(* the locals of a request that has just come in *)
FreshLocals(req, d, cg) ==
    [domain |-> d, verbose |-> FALSE, pc |-> "create_resolver", chain |-> <<>>, idx |-> 0,
     should_continue |-> TRUE, result |-> <<>>, queries |-> <<>>,
     lookups |-> <<>>, gchain |-> <<>>, glue_results |-> <<>>,
     gidx |-> 0, glue_log |-> <<>>, nameservers |-> <<>>,
     xref_results |-> <<>>, xidx |-> 0, xref_log |-> <<>>,
     check_glue |-> cg, health |-> <<>>, request |-> req,
     response |-> <<>>]

(* the request whose locals are c runs from now on *)
Resume(c) ==
    /\ domain' = c.domain
    /\ verbose' = c.verbose
    /\ pc' = c.pc
    /\ chain' = c.chain
    /\ idx' = c.idx
    /\ should_continue' = c.should_continue
    /\ result' = c.result
    /\ queries' = c.queries
    /\ lookups' = c.lookups
    /\ gchain' = c.gchain
    /\ glue_results' = c.glue_results
    /\ gidx' = c.gidx
    /\ glue_log' = c.glue_log
    /\ nameservers' = c.nameservers
    /\ xref_results' = c.xref_results
    /\ xidx' = c.xidx
    /\ xref_log' = c.xref_log
    /\ check_glue' = c.check_glue
    /\ health' = c.health
    /\ request' = c.request
    /\ response' = c.response

InitTwo ==
    /\ answers \in AnswerSets
    /\ request \in {[id |-> 1, dns_server |-> server] : server \in Upstreams}
    /\ domain \in TwoDomains
    /\ check_glue \in BOOLEAN
    /\ pc = "create_resolver"
    /\ NoTrace
    /\ NoGlue
    /\ NoXref
    /\ health = <<>>
    /\ response = <<>>
    /\ prior = <<>>
    /\ other = <<>>
    /\ resolver = GlobalResolver

(* custom_resolver = create_custom_resolver(dns_server) *)
TwoCreateResolver ==
    /\ pc = "create_resolver"
    /\ resolver' = ResolverAfterCreate(resolver, request.dns_server)
    /\ pc' = "trace_start"
    /\ UNCHANGED <<domain, traceVars, glueVars, xrefVars, check_glue, health,
                   request, response, prior, other, answers>>

TwoTraceStep ==
    /\ pc = "trace_walk"
    /\ idx < Len(chain)
    /\ LET outcome == TraceOutcomeIn(answers.up[RequestUpstream], chain[idx + 1], domain)
       IN  TraceStep(outcome, SlowThresholdMs,
                     IF outcome = "OK" THEN <<NsName("n", chain[idx + 1])>> ELSE <<>>, {})

TwoGlueCheckZone ==
    /\ pc = "glue_walk"
    /\ gidx < Len(gchain)
    /\ gidx # 0
    /\ GlueCheckZone(GlueEnvIn(answers.up[RequestUpstream], gchain[gidx + 1],
                               gchain[gidx], domain))

(* test_last_level_ns_references looks the nameserver up with the module's
   resolver, whatever dns_server the request names *)
TwoXrefQuery ==
    /\ pc = "xref_query"
    /\ xidx < Len(nameservers)
    /\ XrefQuery(XrefResponseIn(answers.up[resolver.nameservers], nameservers))

TwoScore == PipeScore(answers.tie)

(* the request served alone has returned: its results are kept, the same
   request comes in again and a second request with it *)
StartPair ==
    /\ pc = "pipe_done"
    /\ prior = <<>>
    /\ prior' = Locals
    /\ Resume(FreshLocals(request, domain, check_glue))
    /\ \E server \in Upstreams, d \in TwoDomains, cg \in BOOLEAN :
          other' = FreshLocals([id |-> 2, dns_server |-> server], d, cg)
    /\ UNCHANGED <<resolver, answers>>

(* the running request is suspended and the waiting one runs *)
Switch ==
    /\ other # <<>>
    /\ other' = Locals
    /\ Resume(other)
    /\ UNCHANGED <<prior, resolver, answers>>

NextTwo ==
    \/ TwoCreateResolver
    \/ TraceStart \/ TwoTraceStep \/ TraceReturn
    \/ PipeCheckGlue \/ GlueStart \/ GlueSkipRoot \/ TwoGlueCheckZone \/ GlueReturn
    \/ PipeSelect
    \/ XrefStart \/ TwoXrefQuery \/ XrefFinish
    \/ TwoScore
    \/ StartPair
    \/ Switch

SpecTwo == InitTwo /\ [][NextTwo]_vars

(* what a request returns and what it asked the DNS *)
Returned(c) ==
    <<c.result, c.chain, c.glue_results, c.nameservers, c.xref_results, c.health,
      c.queries, c.glue_log, c.xref_log>>

(* the locals of the first request while the two are served together *)
FirstOfPair ==
    IF request.id = 1 THEN Locals ELSE other

BothDone == other # <<>> /\ pc = "pipe_done" /\ other.pc = "pipe_done"

(* C26: a request whose steps are interleaved with those of another request
   in any order returns what it returns when it is served alone against the
   same DNS answers, and the one object both requests can reach, the
   module's resolver, is never written. *)
C26_RequestsAreIndependent ==
    /\ resolver = GlobalResolver
    /\ (other # <<>> /\ FirstOfPair.pc = "pipe_done") =>
          Returned(FirstOfPair) = Returned(prior)

(* both requests are done; they asked for the same domain through different
   upstreams that answer differently, and got different results *)
C26_Witness ==
    /\ BothDone
    /\ request.dns_server # other.request.dns_server
    /\ domain = other.domain
    /\ check_glue /\ other.check_glue
    /\ health.score # other.health.score
    /\ result # other.result

====
